---- MODULE Spec2Model ----
(***************************************************************************)
(* Model of the song-to-video pipeline: the RenderProgressTracker store    *)
(* (src/backend/video/progress_tracker.py) and the orchestrator worker     *)
(* VideoGenerator._generate_from_url_worker                                *)
(* (src/backend/generation/video_generator.py).                            *)
(*                                                                         *)
(* Percentages are Python floats in the source.  Here every percentage is  *)
(* an integer number of 1/PScale percent; PScale is a multiple of every    *)
(* divisor the tracker uses (scene totals, transition totals), so all the  *)
(* divisions below are exact.                                              *)
(***************************************************************************)
EXTENDS Integers, Sequences, FiniteSets, TLC

VARIABLES
    progress_data,    \* RenderProgressTracker.progress_data: dict job_id -> record
    progress_files,   \* the <job_id>.json files of the tracker's output_dir
    gpc,              \* position of the generate_from_url caller
    job_id,           \* the job id generate_from_url drew
    scene_count,      \* worker parameter / local scene_count (None or Some(n))
    pc,               \* position of the worker thread
    download_error,   \* local `error` of download_from_url
    metadata,         \* local `metadata` of download_from_url
    lyrics_lines,     \* local lyrics_lines (lines are numbered 1..n)
    scene_descriptions, \* local scene_descriptions
    scene_results,    \* local scene_results (results of batch_generate_scenes)
    successful_scenes, \* local successful_scenes
    processed_scenes, \* local processed_scenes (scenes whose image exists)
    scene_videos,     \* local scene_videos (clips handed to the compositor)
    idx,              \* loop index of the running loop (batch loop, clip loop)
    output_path,      \* local output_path (the final video)
    combine_result,   \* result of combine_videos_with_transitions
    audio_result,     \* result of add_audio
    mux_output,       \* output path add_audio was called with
    render_calls,     \* number of generate_scene calls made for the job
    encoder_calls,    \* number of encoder (FFmpeg) invocations made for the job
    stage_log,        \* the tracker's log of stage names set for the job
    query_result,     \* what the last get_job_status returned
    temp_dir,         \* whether the directory jobs/<job_id>/temp exists
    combined,         \* what the last combine_videos_with_transitions call did
    cpc,              \* position of a direct caller of the compositor
    in_video_paths,   \* compositor argument video_paths
    fs,               \* the clip files on disk before the compositor runs
    in_transition_type,    \* compositor argument transition_type
    in_transition_duration, \* compositor argument transition_duration
    rpc,              \* position of generate_scene and of wait_for_prompt
    now,              \* time.time()
    start_time,       \* local start_time of wait_for_prompt
    timeout,          \* wait_for_prompt argument timeout
    check_interval,   \* wait_for_prompt argument check_interval
    prompt_id,        \* the prompt id queue_prompt returned
    status_data,      \* local status_data of wait_for_prompt
    wait_result,      \* what wait_for_prompt returned
    polls,            \* number of iterations wait_for_prompt has started
    events,           \* what the client has done for the prompt, in order
    image_paths,      \* what download_output_images did
    scene_return,     \* what generate_scene returned
    heap,             \* the node dicts of the workflows in memory, by address
    template,         \* the workflow load_workflow returned
    loaded_nodes,     \* the nodes of the template as they were loaded
    patch_applied,    \* whether patch_interface replaced update_workflow
    patches,          \* the calls of update_workflow made, in order
    spc,              \* position of generate_scene of the fast renderer
    model_type,       \* generate_scene argument model_type
    aspect_ratio,     \* generate_scene argument aspect_ratio
    updated_workflow, \* local updated_workflow of generate_scene
    seed,             \* what random.randint returned for the seed
    fpc,              \* position of a caller of fix_workflow_file
    fix_in,           \* the workflow in the input file of fix_workflow_file
    fix_io,           \* whether the output file can be written
    fix_out,          \* what fix_workflow_file returned and wrote
    tpc,              \* state of the process that owns the tracker
    held,             \* per job: what its worker did with the dict get_job returned
    before_restart,   \* progress_data of the process that ended
    seen,             \* what get_progress last returned, by job
    op_job,           \* the job of the last tracker operation
    ops,              \* number of changes made to job records
    qpc,              \* position of a generate_scene call that chooses the text node
    text_node_id,     \* the node the text update was built for
    waiters,          \* per prompt id: position and return of its wait_for_prompt
    backend,          \* the backend behind the shared client
    clock,            \* datetime.now(), in seconds
    kpc,              \* per job: position of its worker in the video creation
    titles,           \* per job: the title of its metadata
    out_names,        \* per job: local output_filename
    written           \* the files written, with the job that wrote each

vars == <<progress_data, progress_files, gpc, job_id, scene_count, pc,
          download_error, metadata, lyrics_lines, scene_descriptions,
          scene_results, successful_scenes, processed_scenes, scene_videos,
          idx, output_path, combine_result, audio_result, mux_output,
          render_calls, encoder_calls, stage_log, query_result, temp_dir,
          combined, cpc, in_video_paths, fs, in_transition_type,
          in_transition_duration, rpc, now, start_time, timeout,
          check_interval, prompt_id, status_data, wait_result, polls, events,
          image_paths, scene_return, heap, template, loaded_nodes, patch_applied,
          patches,
          spc, model_type, aspect_ratio, updated_workflow, seed,
          fpc, fix_in, fix_io, fix_out,
          tpc, held, before_restart, seen, op_job, ops,
          qpc, text_node_id,
          waiters, backend,
          clock, kpc, titles, out_names, written>>

\* the variables of the components when they are driven on their own
combineVars == <<cpc, in_video_paths, fs, in_transition_type,
                 in_transition_duration>>
clientVars == <<rpc, now, start_time, timeout, check_interval, prompt_id,
                status_data, wait_result, polls, events, image_paths,
                scene_return>>
patchVars == <<heap, template, loaded_nodes, patch_applied, patches>>
sceneVars == <<spc, model_type, aspect_ratio, updated_workflow, seed>>
fixVars == <<fpc, fix_in, fix_io, fix_out>>
trackerVars == <<tpc, held, before_restart, seen, op_job, ops>>
promptVars == <<qpc, text_node_id>>
waitVars == <<waiters, backend>>
fileVars == <<clock, kpc, titles, out_names, written>>
componentVars == <<combineVars, clientVars, patchVars, sceneVars, fixVars, trackerVars, promptVars, waitVars, fileVars>>

---------------------------------------------------------------------------
(* Bounds of the model *)

MaxScenes == 2      \* largest explicit scene_count override
MaxLines == 4       \* largest number of lyric lines

JobIds == {"job_a", "job_b"}
DownloadErrors == {"unsupported_url", "http_error"}
Durations == {30}   \* parsed audio durations (seconds)
OutputPaths == {"videos/Song_t1.mp4"}
\* negative scene_count overrides: app.py line 340 passes int(scene_count)
\* on without a range check
NegativeOverrides == {-1}

---------------------------------------------------------------------------
(* Program constants *)

None == <<>>              \* Python None for an optional integer
Some(n) == <<n>>          \* an integer held by an optional local
MinAutoScenes == 4        \* max(4, ...)
MaxAutoScenes == 12       \* min(12, ...)
SecondsPerScene == 20     \* duration_seconds / 20
LinesPerScene == 6        \* len(lyrics_lines) / 6
DefaultSceneCount == 5    \* scene_count = 5
MinSuccessfulScenes == 2  \* len(successful_scenes) < 2

Max2(a, b) == IF a >= b THEN a ELSE b
Min2(a, b) == IF a <= b THEN a ELSE b

RECURSIVE Fact(_)
Fact(n) == IF n <= 1 THEN 1 ELSE n * Fact(n - 1)

\* largest scene total the inputs of the model give (the automatic counts
\* they give do not exceed the default count)
MaxTotal == Max2(Max2(MaxScenes, MaxLines), DefaultSceneCount)
PScale == Fact(MaxTotal)
Pct(p) == p * PScale

---------------------------------------------------------------------------
(* RenderProgressTracker *)

NoError == <<"None", "">>

NewJobRecord(job, total_scenes) ==
    [ job_id |-> job,
      total_scenes |-> total_scenes,
      processed_scenes |-> 0,
      current_stage |-> <<"initializing", 0, 0>>,
      stage_name |-> "initializing",
      stage_progress |-> 0,
      overall_progress |-> 0,
      status |-> "running",
      completed_at |-> "None",
      error |-> NoError,
      scene_descriptions |-> <<>>,
      video_path |-> "None" ]

\* dict assignment d[k] = v
DictSet(d, k, v) == (k :> v) @@ d

create_job(data, job, total_scenes) ==
    DictSet(data, job, NewJobRecord(job, total_scenes))

set_total_scenes(data, job, total_scenes) ==
    IF job \notin DOMAIN data THEN data
    ELSE [data EXCEPT ![job].total_scenes = total_scenes]

Stage_weights ==
    [ initializing |-> 0, download |-> 5, lyrics |-> 10, scene_planning |-> 15,
      scene_generation |-> 20, video_creation |-> 50 ]

update_stage(data, job, stage_name, stage_description) ==
    IF job \notin DOMAIN data THEN data
    ELSE [data EXCEPT
            ![job].stage_name = stage_name,
            ![job].current_stage = <<stage_description, 0, 0>>,
            ![job].stage_progress = 0,
            ![job].overall_progress =
                IF stage_name \in DOMAIN Stage_weights
                THEN Pct(Stage_weights[stage_name])
                ELSE @ ]

\* current_data.update(job_data): every key of job_data overwrites
update_job(data, job, job_data) ==
    IF job \notin DOMAIN data THEN data
    ELSE [data EXCEPT ![job] = job_data @@ @]

\* bands: start + (end - start) * stage_progress / 100, capped at 100
Band(start, end, stage_progress) ==
    Min2(Pct(100), Pct(start) + ((end - start) * stage_progress) \div 100)

update_scene_progress(data, job, scene_index) ==
    IF job \notin DOMAIN data THEN data
    ELSE LET old == data[job]
             sp == ((scene_index + 1) * Pct(100)) \div Max2(1, old.total_scenes)
         IN [data EXCEPT
               ![job].processed_scenes = @ + 1,
               ![job].current_stage =
                   <<"Processing scene", scene_index + 1, old.total_scenes>>,
               ![job].stage_progress = sp,
               ![job].overall_progress =
                   IF old.stage_name = "scene_generation" THEN Band(20, 50, sp)
                   ELSE IF old.stage_name = "video_creation" THEN Band(50, 75, sp)
                   ELSE @ ]

update_transition_progress(data, job, transition_index, total_transitions) ==
    IF job \notin DOMAIN data THEN data
    ELSE LET sp == ((transition_index + 1) * Pct(100))
                       \div Max2(1, total_transitions)
         IN [data EXCEPT
               ![job].current_stage =
                   <<"Adding transitions", transition_index + 1, total_transitions>>,
               ![job].stage_progress = sp,
               ![job].overall_progress = Band(75, 90, sp) ]

update_audio_progress(data, job, progress_percent) ==
    IF job \notin DOMAIN data THEN data
    ELSE [data EXCEPT
            ![job].current_stage = <<"Adding audio", 0, 0>>,
            ![job].stage_progress = Pct(progress_percent),
            ![job].overall_progress = Band(90, 100, Pct(progress_percent)) ]

complete_job(data, job, video_path) ==
    IF job \notin DOMAIN data THEN data
    ELSE [data EXCEPT
            ![job].current_stage = <<"Completed", 0, 0>>,
            ![job].stage_progress = Pct(100),
            ![job].overall_progress = Pct(100),
            ![job].status = "completed",
            ![job].completed_at = "set",
            ![job].video_path = video_path ]

\* variant: failing a job also overwrites its stage name
fail_job_Mut(data, job, error_message) ==
    IF job \notin DOMAIN data THEN data
    ELSE [data EXCEPT
            ![job].status = "failed",
            ![job].stage_name = "failed",
            ![job].error = error_message,
            ![job].completed_at = "set" ]

fail_job(data, job, error_message) ==
    IF job \notin DOMAIN data THEN data
    ELSE [data EXCEPT
            ![job].status = "failed",
            ![job].error = error_message,
            ![job].completed_at = "set" ]

\* _save_progress: json.dump of the job's record into its file; an I/O
\* error (ok = FALSE) is logged and leaves the file as it was
SaveProgress(files, data, job, ok) ==
    IF job \notin DOMAIN data THEN files
    ELSE IF ok THEN DictSet(files, job, data[job])
    ELSE files

\* get_progress: the record held in memory, else the one loaded from the
\* job's file, else None
get_progress_data(data, files, job) ==
    IF job \in DOMAIN data THEN data
    ELSE IF job \in DOMAIN files THEN DictSet(data, job, files[job])
    ELSE data

get_progress_found(data, files, job) ==
    job \in DOMAIN get_progress_data(data, files, job)

---------------------------------------------------------------------------
(* Pure helpers of the worker *)

\* Python round() of a / b for a >= 0, b > 0: round half to even
Round(a, b) ==
    LET q == a \div b
        r == a % b
    IN IF 2 * r < b THEN q
       ELSE IF 2 * r > b THEN q + 1
       ELSE IF q % 2 = 0 THEN q ELSE q + 1

Clamp(n) == Max2(MinAutoScenes, Min2(MaxAutoScenes, n))

NoMetadata == [has_duration |-> FALSE, parses |-> FALSE, seconds |-> 0]

Metadatas ==
    { NoMetadata, [has_duration |-> TRUE, parses |-> FALSE, seconds |-> 0] }
    \cup { [has_duration |-> TRUE, parses |-> TRUE, seconds |-> s] : s \in Durations }

\* lines 181-206: the scene count the worker settles on
SceneCountFromDuration(arg, md) ==
    IF arg = None /\ md.has_duration /\ md.parses
    THEN Some(Clamp(Round(md.seconds, SecondsPerScene)))
    ELSE arg

SceneCountFromLyrics(sc, nlines) ==
    IF sc = None /\ nlines > 0
    THEN Some(Clamp(Round(nlines, LinesPerScene)))
    ELSE sc

DetermineSceneCount(arg, md, nlines) ==
    LET sc == SceneCountFromLyrics(SceneCountFromDuration(arg, md), nlines)
    IN IF sc = None THEN DefaultSceneCount ELSE sc[1]

\* lines 216-227: lyrics_chunks, each chunk the sequence of its line numbers
RECURSIVE Chunks(_, _, _)
Chunks(from, n, chunk_size) ==
    IF from > n THEN <<>>
    ELSE <<[k \in 1..Min2(chunk_size, n - from + 1) |-> from + k - 1]>>
             \o Chunks(from + chunk_size, n, chunk_size)

\* the slice s[:n]; a negative n drops the last -n elements
Truncate(s, n) ==
    LET keep == IF n >= 0 THEN Min2(n, Len(s)) ELSE Max2(0, Len(s) + n)
    IN SubSeq(s, 1, keep)

\* max(1, len(lyrics_lines) // scene_count); the floor quotient by a
\* negative count is never positive
ChunkSize(nlines, count) ==
    IF count < 0 THEN 1 ELSE Max2(1, nlines \div count)

LyricsChunks(nlines, count) ==
    Truncate(Chunks(1, nlines, ChunkSize(nlines, count)), count)

\* variant: no generic scene is added
PadGeneric_Mut(sd, count) == sd

\* lines 229-248: lyric scenes first, generic scenes up to the count
RECURSIVE PadGeneric(_, _)
PadGeneric(sd, count) ==
    IF Len(sd) >= count THEN sd
    ELSE PadGeneric(Append(sd, [scene_id |-> Len(sd) + 1, description |-> <<>>,
                                generic |-> TRUE]), count)

SceneDescriptions(nlines, count) ==
    LET chunks == IF nlines > 0 THEN LyricsChunks(nlines, count) ELSE <<>>
        fromLyrics == [i \in 1..Len(chunks) |->
                          [scene_id |-> i, description |-> chunks[i],
                           generic |-> FALSE]]
    IN PadGeneric(fromLyrics, count)

\* line 218 raises ZeroDivisionError
DescribeRaises(nlines, count) == nlines > 0 /\ count = 0

\* line 273
SuccessfulOf(results) ==
    LET Ok(r) == r.success IN SelectSeq(results, Ok)

---------------------------------------------------------------------------
(* Transition compositor: src/backend/video/processor.py                   *)
(*                                                                         *)
(* A clip file is the sequence of its frames; a frame is the set of the    *)
(* scenes it shows (one scene, or two while a transition blends them).     *)
(* Durations are counted in frames.  The file system is a function from    *)
(* paths to clip files.  The executable at ffmpeg_path is external: each   *)
(* run of it either fails or does what its arguments ask.                  *)

SupportedTransitions == {"fade", "wipe", "dissolve"}
DefaultTransitionType == "fade"
DefaultTransitionDuration == 1
TransitionOutcomes == {"ok", "probe_failed", "encode_failed"}

SourceClip(k, duration) == [t \in 1..duration |-> {k}]

\* line 385
TempOutput(i) == "temp_transition_" \o ToString(i) \o ".mp4"

\* trim=start:end,setpts=PTS-STARTPTS
trim(clip, start, end) ==
    LET s == Min2(Max2(start, 0), Len(clip))
        e == Min2(Max2(end, s), Len(clip))
    IN SubSeq(clip, s + 1, e)

\* variant: the two inputs are joined without overlapping
xfade_Mut(a, b, duration, offset) ==
    a \o b

\* xfade=transition=...:duration=...:offset=...: the first input up to the
\* offset, the blend of both inputs over the duration, then the second
xfade(a, b, duration, offset) ==
    [t \in 1..(offset + Len(b)) |->
        IF t <= offset THEN (IF t <= Len(a) THEN a[t] ELSE {})
        ELSE IF t <= offset + duration /\ t <= Len(a)
             THEN a[t] \cup b[t - offset]
             ELSE b[t - offset]]

\* lines 286-321: the filter graph of the transition type
FilterComplex(video1, video2, transition_type, transition_duration, video1_duration, transition_start) ==
    IF transition_type \in SupportedTransitions
    THEN LET v0start == trim(video1, 0, transition_start)
             v0end == trim(video1, transition_start, video1_duration)
             v1start == trim(video2, 0, transition_duration)
             v1end == trim(video2, transition_duration, Len(video2))
         IN v0start \o xfade(v0end, v1start, transition_duration, 0) \o v1end
    ELSE video1 \o video2

\* variant: the two inputs are given to the encoder in the other order
add_transition_Mut(files, video1_path, video2_path, out_path, transition_type, transition_duration, outcome) ==
    IF outcome = "probe_failed" \/ video1_path \notin DOMAIN files
    THEN [success |-> FALSE, error |-> "FFmpeg error getting video1 duration",
          files |-> files, runs |-> 1]
    ELSE IF outcome = "encode_failed" \/ video2_path \notin DOMAIN files
    THEN [success |-> FALSE, error |-> "FFmpeg error",
          files |-> files, runs |-> 2]
    ELSE LET video1_duration == Len(files[video2_path])
             transition_start == Max2(0, video1_duration - transition_duration)
             outv == FilterComplex(files[video2_path], files[video1_path],
                                   transition_type, transition_duration,
                                   video1_duration, transition_start)
         IN [success |-> TRUE, error |-> "None",
             files |-> (out_path :> outv) @@ files, runs |-> 2]

\* lines 257-346: probe the duration of video1, then encode the pair
add_transition(files, video1_path, video2_path, out_path, transition_type, transition_duration, outcome) ==
    IF outcome = "probe_failed" \/ video1_path \notin DOMAIN files
    THEN [success |-> FALSE, error |-> "FFmpeg error getting video1 duration",
          files |-> files, runs |-> 1]
    ELSE IF outcome = "encode_failed" \/ video2_path \notin DOMAIN files
    THEN [success |-> FALSE, error |-> "FFmpeg error",
          files |-> files, runs |-> 2]
    ELSE LET video1_duration == Len(files[video1_path])
             transition_start == Max2(0, video1_duration - transition_duration)
             outv == FilterComplex(files[video1_path], files[video2_path],
                                   transition_type, transition_duration,
                                   video1_duration, transition_start)
         IN [success |-> TRUE, error |-> "None",
             files |-> (out_path :> outv) @@ files, runs |-> 2]

\* lines 383-402: the loop over the clips after the first; acc is the
\* loop's state after the iterations before i
RECURSIVE combine_loop(_, _, _, _, _, _)
combine_loop(acc, i, video_paths, transition_type, transition_duration, outcome) ==
    IF i > Len(video_paths) - 1 \/ ~acc.success THEN acc
    ELSE LET temp_output == TempOutput(i)
             r == add_transition(acc.files, acc.result_path, video_paths[i + 1],
                                 temp_output, transition_type, transition_duration,
                                 IF outcome.failed_at = i THEN outcome.kind
                                 ELSE "ok")
         IN combine_loop(
               [success |-> r.success, error |-> r.error, files |-> r.files,
                result_path |-> IF r.success THEN temp_output
                                ELSE acc.result_path,
                calls |-> Append(acc.calls,
                                 [video1_path |-> acc.result_path,
                                  video2_path |-> video_paths[i + 1],
                                  output_path |-> temp_output]),
                runs |-> acc.runs + r.runs],
               i + 1, video_paths, transition_type, transition_duration, outcome)

\* shutil.rmtree(temp_dir, ignore_errors=True)
RemoveTemp(files, n) ==
    LET temp == { TempOutput(i) : i \in 1..n }
    IN [p \in (DOMAIN files) \ temp |-> files[p]]

\* shutil.copy(src, dst): raises when the source is missing or the copy fails
Copy(files, src, dst, outcome) ==
    IF outcome.kind = "copy_failed" \/ src \notin DOMAIN files
    THEN [success |-> FALSE, files |-> files]
    ELSE [success |-> TRUE, files |-> (dst :> files[src]) @@ files]

CombineResult(success, error, files, calls, runs) ==
    [success |-> success, error |-> error, files |-> files, calls |-> calls,
     runs |-> runs]

\* variant: the check for an empty list is missing, video_paths[0] raises
combine_videos_with_transitions_Mut(files, video_paths, out_path, transition_type, transition_duration, outcome) ==
    IF Len(video_paths) = 0
    THEN CombineResult(FALSE, "Failed to combine videos with transitions",
                       files, <<>>, 0)
    ELSE IF Len(video_paths) = 1
    THEN LET c == Copy(files, video_paths[1], out_path, outcome)
         IN CombineResult(c.success,
                          IF c.success THEN "None"
                          ELSE "Failed to combine videos with transitions",
                          c.files, <<>>, 0)
    ELSE LET acc == combine_loop([success |-> TRUE, error |-> "None",
                                  files |-> files, result_path |-> video_paths[1],
                                  calls |-> <<>>, runs |-> 0],
                                 1, video_paths, transition_type,
                                 transition_duration, outcome)
             n == Len(video_paths)
         IN IF ~acc.success
            THEN CombineResult(FALSE, acc.error, RemoveTemp(acc.files, n),
                               acc.calls, acc.runs)
            ELSE LET c == Copy(acc.files, acc.result_path, out_path, outcome)
                 IN IF ~c.success
                    THEN CombineResult(FALSE,
                             "Failed to combine videos with transitions",
                             c.files, acc.calls, acc.runs)
                    ELSE CombineResult(TRUE, "None", RemoveTemp(c.files, n),
                                       acc.calls, acc.runs)

\* lines 365-416
combine_videos_with_transitions(files, video_paths, out_path, transition_type, transition_duration, outcome) ==
    IF Len(video_paths) = 0
    THEN CombineResult(FALSE, "No videos provided", files, <<>>, 0)
    ELSE IF Len(video_paths) = 1
    THEN LET c == Copy(files, video_paths[1], out_path, outcome)
         IN CombineResult(c.success,
                          IF c.success THEN "None"
                          ELSE "Failed to combine videos with transitions",
                          c.files, <<>>, 0)
    ELSE LET acc == combine_loop([success |-> TRUE, error |-> "None",
                                  files |-> files, result_path |-> video_paths[1],
                                  calls |-> <<>>, runs |-> 0],
                                 1, video_paths, transition_type,
                                 transition_duration, outcome)
             n == Len(video_paths)
         IN IF ~acc.success
            THEN CombineResult(FALSE, acc.error, RemoveTemp(acc.files, n),
                               acc.calls, acc.runs)
            ELSE LET c == Copy(acc.files, acc.result_path, out_path, outcome)
                 IN IF ~c.success
                    THEN CombineResult(FALSE,
                             "Failed to combine videos with transitions",
                             c.files, acc.calls, acc.runs)
                    ELSE CombineResult(TRUE, "None", RemoveTemp(c.files, n),
                                       acc.calls, acc.runs)

\* no call has been made
NotCombined == CombineResult(FALSE, "None", <<>>, <<>>, 0)

\* what may go wrong in one call on n clips: nothing, the final copy, or
\* the probe or the encoding of the transition failed_at
CombineOutcomes(n) ==
    {[failed_at |-> 0, kind |-> "ok"], [failed_at |-> 0, kind |-> "copy_failed"]}
    \cup { [failed_at |-> i, kind |-> k] :
             i \in 1..(n - 1), k \in {"probe_failed", "encode_failed"} }

---------------------------------------------------------------------------
(* Render backend client: ComfyUIInterface (src/backend/comfyui/          *)
(* interface.py) as FastRenderer.generate_scene drives it                 *)
(* (src/backend/comfyui/fast_renderer.py lines 534-566).                  *)
(*                                                                         *)
(* The backend is external: every request gets an arbitrary answer after  *)
(* an arbitrary latency.  Time is counted in whole ticks.  The timeout    *)
(* and the check interval of wait_for_prompt are drawn from bounded sets. *)

MaxKeys == 2        \* most keys in the updates of one call
MaxPatches == 2     \* most calls of update_workflow on one template
MaxSeed == 2        \* largest value random.randint gives in the model
MaxLinks == 2       \* most links in a workflow file
MaxTextNodes == 2   \* most text-encode nodes of a loaded workflow
MaxHandles == 2     \* most prompt ids in flight on the shared client
MaxClock == 2       \* last clock second of the concurrent jobs
MaxOps == 4         \* most changes made to job records before a restart
MaxTimeout == 3     \* largest timeout of wait_for_prompt
MaxInterval == 2    \* largest check_interval
MaxLatency == 1     \* longest time a request takes

Timeouts == (-1)..MaxTimeout
Intervals == 1..MaxInterval
Latencies == 0..MaxLatency

\* GET /prompt/status: the request raises, answers with a status other
\* than 200, reports an error, reports the prompt as executing, as pending,
\* or mentions it in neither place
StatusAnswers == {"exception", "http_error", "error", "executing", "pending", "other"}

\* get_history and get_prompt_outputs: the prompt is not in the history, is
\* there without outputs, or is there with outputs
HistoryAnswers == {"absent", "no_outputs", "outputs"}

Output(key, type, filename) == [key |-> key, type |-> type, filename |-> filename]

\* results of get_prompt_outputs, in the order of the dict
OutputDicts ==
    { <<Output("9_images", "image", "a.png")>>,
      <<Output("9_images", "image", "a.png"), Output("9_text", "text", ""),
        Output("10_images", "image", "b.png")>>,
      <<Output("9_images", "image", ""), Output("10_images", "image", "b.png")>>,
      <<Output("9_text", "text", "")>> }

OutputKeys == {"9_images", "9_text", "10_images"}

\* get_image and the write of the file: image data, an empty body, None
\* (the request failed), or data whose file cannot be written
GetImageOutcomes == {"data", "empty", "None", "write_error"}

TimeoutError == "Timeout waiting for prompt to complete"
Succeeded(outputs) == [success |-> TRUE, error |-> "None", outputs |-> outputs]
Failed(error) == [success |-> FALSE, error |-> error, outputs |-> <<>>]
NoWaitResult == Failed("None")

\* line 401
LocalPath(output) == output.key \o "_" \o output.filename

NoDownload == [raised |-> FALSE, result |-> <<>>, requested |-> <<>>, fetched |-> <<>>]

\* variant: an image that cannot be fetched makes the call fail
download_one_Mut(acc, output, fetch) ==
    IF output.type = "image" /\ output.filename # ""
    THEN LET image_data == fetch[output.key]
         IN [raised |-> image_data \in {"write_error", "None"},
             result |-> IF image_data = "data"
                        THEN (output.key :> LocalPath(output)) @@ acc.result
                        ELSE acc.result,
             requested |-> Append(acc.requested, output.key),
             fetched |-> (output.key :> image_data) @@ acc.fetched]
    ELSE acc

\* lines 392-411: one iteration of the loop over the outputs
download_one(acc, output, fetch) ==
    IF output.type = "image" /\ output.filename # ""
    THEN LET image_data == fetch[output.key]
         IN [raised |-> image_data = "write_error",
             result |-> IF image_data = "data"
                        THEN (output.key :> LocalPath(output)) @@ acc.result
                        ELSE acc.result,
             requested |-> Append(acc.requested, output.key),
             fetched |-> (output.key :> image_data) @@ acc.fetched]
    ELSE acc

\* lines 377-413: the map of the saved images, the keys get_image was
\* called for with what each call gave, and whether the call raised
RECURSIVE download_output_images(_, _, _)
download_output_images(acc, outputs, fetch) ==
    IF outputs = <<>> \/ acc.raised THEN acc
    ELSE download_output_images(download_one(acc, Head(outputs), fetch),
                                Tail(outputs), fetch)

\* next(iter(image_paths.values())): the path of the first key saved
FirstImagePath(outputs, result) ==
    LET saved == { i \in 1..Len(outputs) : outputs[i].key \in DOMAIN result }
        first == CHOOSE i \in saved : \A k \in saved : i <= k
    IN result[outputs[first].key]

SceneReturn(image_path, error) == [image_path |-> image_path, error |-> error]

\* nothing drives the client
ClientIdle ==
    /\ rpc = "idle"
    /\ now = 0
    /\ start_time = 0
    /\ timeout = 0
    /\ check_interval = 1
    /\ prompt_id = "None"
    /\ status_data = "none"
    /\ wait_result = NoWaitResult
    /\ polls = 0
    /\ events = <<>>
    /\ image_paths = NoDownload
    /\ scene_return = SceneReturn("None", "None")

---------------------------------------------------------------------------
(* Workflow patching: ComfyUIInterface.update_workflow                     *)
(* (src/backend/comfyui/interface.py lines 91-163) and                     *)
(* improved_update_workflow (src/backend/comfyui/workflow_updater.py),     *)
(* which patch_interface.py installs in its place.                         *)
(*                                                                         *)
(* Node dicts live on a heap: a workflow is the list of the addresses of   *)
(* its nodes, so that a copy that shares nodes with its original can be    *)
(* told from one that does not.  A key of the updates is the sequence of   *)
(* its parts between the dots.  Widget values are strings.                 *)

Input(name) == [name |-> name, value |-> "None"]

Node(id, type, inputs, has_widgets_values, widgets_values, has_widgets, widgets) ==
    [id |-> id, type |-> type, inputs |-> inputs,
     has_widgets_values |-> has_widgets_values, widgets_values |-> widgets_values,
     has_widgets |-> has_widgets, widgets |-> widgets]

\* the nodes of the workflow _create_sdxl_turbo_workflow writes that the
\* patcher is asked about (fast_renderer.py lines 70-256)
TurboNodes ==
    << Node("5", "EmptyLatentImage", <<>>, TRUE, <<"896", "504", "1">>, FALSE, <<>>),
       Node("6", "CLIPTextEncode", <<Input("clip")>>, TRUE, <<"a scene">>, FALSE, <<>>),
       Node("8", "VAEDecode", <<Input("samples"), Input("vae")>>, FALSE, <<>>, FALSE, <<>>),
       Node("27", "SaveImage", <<Input("images")>>, TRUE, <<"MaiVid_Scenes">>, FALSE, <<>>) >>

\* a workflow saved with widget names and a two-widget SaveImage node
NamedNodes ==
    << Node("5", "EmptyLatentImage", <<>>, TRUE, <<"896", "504", "1">>, FALSE, <<>>),
       Node("6", "CLIPTextEncode", <<Input("clip")>>, TRUE, <<"a scene">>, FALSE, <<>>),
       Node("8", "Note", <<>>, TRUE, <<"memo">>, TRUE, <<"text">>),
       Node("27", "SaveImage", <<Input("images")>>, TRUE, <<"out", "prefix">>, FALSE, <<>>) >>

Templates == {TurboNodes, NamedNodes}

\* the node dicts a workflow refers to, in the order of its "nodes" list
Content(h, workflow) == [i \in 1..Len(workflow) |-> h[workflow[i]]]

\* variant: copy.copy, the copy refers to the nodes of the original
deepcopy_Mut(h, workflow) ==
    [heap |-> h, workflow |-> workflow]

\* copy.deepcopy: every node is copied to a fresh address
deepcopy(h, workflow) ==
    [heap |-> h \o Content(h, workflow),
     workflow |-> [i \in 1..Len(workflow) |-> Len(h) + i]]

\* the address of the first node of the workflow whose id is node_id, 0
\* when there is none
FindNode(h, workflow, node_id) ==
    LET found == { i \in 1..Len(workflow) : h[workflow[i]].id = node_id }
    IN IF found = {} THEN 0
       ELSE workflow[CHOOSE i \in found : \A k \in found : i <= k]

\* the index (from 0) of the first element of the list named name, -1 when
\* there is none
IndexOfName(names, name) ==
    LET found == { i \in 1..Len(names) : names[i] = name }
    IN IF found = {} THEN -1
       ELSE (CHOOSE i \in found : \A k \in found : i <= k) - 1

InputNames(node) == [i \in 1..Len(node.inputs) |-> node.inputs[i].name]

\* node["widgets_values"][index] = value
SetWidget(h, a, index, value) ==
    [h EXCEPT ![a].widgets_values[index + 1] = value]

\* the node's "inputs" is a dict of parameter values (held in input_dict)
\* and not a list of input slots
HasInputDict(node) == "input_dict" \in DOMAIN node

\* interface.py lines 109-161: one key of the updates.  When the inputs of
\* the node are a list the test of line 120 fails; when they are a dict
\* that holds the parameter line 121 sets it, and when the dict does not
\* hold it nothing is changed (line 128 raises on the keys of the dict).
UpdateKey(h, workflow, key, value) ==
    IF Len(key) # 2 THEN h
    ELSE LET param == key[2]
             a == FindNode(h, workflow, key[1])
         IN IF a = 0 THEN h
            ELSE IF HasInputDict(h[a])
            THEN IF param \in DOMAIN h[a].input_dict
                 THEN [h EXCEPT ![a].input_dict[param] = value]
                 ELSE h
            ELSE IF ~h[a].has_widgets_values THEN h
            ELSE LET node == h[a]
                     param_index == IndexOfName(InputNames(node), param)
                     n == Len(node.widgets_values)
                 IN IF param_index >= 0 /\ param_index < n
                    THEN SetWidget(h, a, param_index, value)
                    ELSE IF node.type = "CLIPTextEncode" /\ param = "text" /\ n > 0
                    THEN SetWidget(h, a, 0, value)
                    ELSE IF node.type = "SaveImage" /\ param = "filename_prefix" /\ n > 1
                    THEN SetWidget(h, a, 1, value)
                    ELSE IF node.type = "SaveImage" /\ param = "output_dir" /\ n > 0
                    THEN SetWidget(h, a, 0, value)
                    ELSE h

\* workflow_updater.py lines 60-95: the slot of widgets_values the type of
\* the node gives the parameter, -1 when it gives none
SpecialSlot(node, param) ==
    LET n == IF node.has_widgets_values THEN Len(node.widgets_values) ELSE 0
        slot ==
            IF node.type = "CLIPTextEncode" /\ param = <<"text">> THEN 0
            ELSE IF node.type = "EmptyLatentImage" /\ param = <<"width">> THEN 0
            ELSE IF node.type = "EmptyLatentImage" /\ param = <<"height">> THEN 1
            ELSE IF node.type = "EmptyLatentImage" /\ param = <<"batch_size">> THEN 2
            ELSE IF node.type = "SaveImage" /\ param = <<"output_dir">> THEN 0
            ELSE IF node.type = "SaveImage" /\ param = <<"filename_prefix">> THEN 1
            ELSE IF node.type = "CheckpointLoaderSimple" /\ param = <<"ckpt_name">> THEN 0
            ELSE -1
    IN IF slot >= 0 /\ slot < n THEN slot ELSE -1

\* workflow_updater.py lines 39-139: one key of the updates
ImprovedUpdateKey(h, workflow, key, value) ==
    IF Len(key) < 2 THEN h
    ELSE LET param == Tail(key)
             a == FindNode(h, workflow, key[1])
         IN IF a = 0 THEN h
            ELSE LET node == h[a]
                     special == SpecialSlot(node, param)
                     input == IF Len(param) = 1
                              THEN IndexOfName(InputNames(node), param[1]) ELSE -1
                     widget == IF Len(param) = 1 /\ node.has_widgets
                                  /\ node.has_widgets_values
                               THEN IndexOfName(node.widgets, param[1]) ELSE -1
                 IN IF special >= 0 THEN SetWidget(h, a, special, value)
                    \* line 98 raises on the keys of a dict of inputs
                    ELSE IF HasInputDict(node) THEN h
                    ELSE IF input >= 0
                    THEN [h EXCEPT ![a].inputs[input + 1].value = value]
                    ELSE IF widget >= 0 /\ widget < Len(node.widgets_values)
                    THEN SetWidget(h, a, widget, value)
                    ELSE h

\* variant: a key whose node is not in the workflow raises
PatchKey_Mut(improved, h, workflow, key, value) ==
    IF Len(key) >= 2 /\ FindNode(h, workflow, key[1]) = 0
    THEN [heap |-> h, raised |-> TRUE]
    ELSE [heap |-> IF improved THEN ImprovedUpdateKey(h, workflow, key, value)
                   ELSE UpdateKey(h, workflow, key, value),
          raised |-> FALSE]

\* the body of the loop over the updates, inside its try (interface.py
\* lines 109-161, workflow_updater.py lines 39-139): nothing it raises
\* leaves it
PatchKey(improved, h, workflow, key, value) ==
    [heap |-> IF improved THEN ImprovedUpdateKey(h, workflow, key, value)
              ELSE UpdateKey(h, workflow, key, value),
     raised |-> FALSE]

\* the loop over the items of the updates in the order of the dict
RECURSIVE PatchKeys(_, _, _, _)
PatchKeys(improved, acc, workflow, updates) ==
    IF updates = <<>> \/ acc.raised THEN acc
    ELSE PatchKeys(improved,
                   PatchKey(improved, acc.heap, workflow, Head(updates)[1],
                            Head(updates)[2]),
                   workflow, Tail(updates))

\* interface.py lines 106-163, workflow_updater.py lines 30-142: the
\* updated workflow, the heap after the call, and whether the call raised
update_workflow(improved, h, workflow, updates) ==
    LET c == deepcopy(h, workflow)
        r == PatchKeys(improved, [heap |-> c.heap, raised |-> FALSE],
                       c.workflow, updates)
    IN [heap |-> r.heap, workflow |-> c.workflow, raised |-> r.raised]

\* the parts of the keys generate_scene and its callers build their updates
\* from, and of keys that name no node, no parameter, or have no dot
UpdateKeys ==
    { <<"6", "text">>, <<"8", "text">>, <<"99", "text">>, <<"prompt">> }

\* the updates of one call: its keys in the order of the dict
UpdateDicts ==
    { ks \in UNION { [1..n -> UpdateKeys] : n \in 1..MaxKeys } :
        \A i, j \in 1..Len(ks) : i # j => ks[i] # ks[j] }

\* the value call number n gives each of its keys
ValueOf(n) == "v" \o ToString(n)

PatchCall(keys, value, workflow, raised) ==
    [keys |-> keys, value |-> value, workflow |-> workflow, raised |-> raised]

\* no workflow is loaded
PatchIdle ==
    /\ heap = <<>>
    /\ template = <<>>
    /\ loaded_nodes = <<>>
    /\ patch_applied = FALSE
    /\ patches = <<>>

---------------------------------------------------------------------------
(* FastRenderer.generate_scene up to queueing the prompt                   *)
(* (src/backend/comfyui/fast_renderer.py lines 403-532): the default       *)
(* template of the model type is loaded, the nodes to patch are looked up, *)
(* the updates are applied and the sampler is given a random seed.         *)

PositivePrompt == "Scene description goes here, replace at runtime"
NegativePrompt == "worst quality, normal quality, low quality"

\* _create_sdxl_turbo_workflow, lines 90-238
SdxlTurboWorkflow ==
    << Node("5", "EmptyLatentImage", <<>>, TRUE, <<"896", "504", "1">>, FALSE, <<>>),
       Node("6", "CLIPTextEncode", <<Input("clip")>>, TRUE, <<PositivePrompt>>, FALSE, <<>>),
       Node("7", "CLIPTextEncode", <<Input("clip")>>, TRUE, <<NegativePrompt>>, FALSE, <<>>),
       Node("8", "VAEDecode", <<Input("samples"), Input("vae")>>, FALSE, <<>>, FALSE, <<>>),
       Node("13", "SamplerCustom",
            <<Input("model"), Input("positive"), Input("negative"),
              Input("sampler"), Input("sigmas"), Input("latent_image")>>,
            TRUE, <<"True", "0", "fixed", "1.2">>, FALSE, <<>>),
       Node("14", "KSamplerSelect", <<>>, TRUE, <<"euler_ancestral">>, FALSE, <<>>),
       Node("20", "CheckpointLoaderSimple", <<>>, TRUE,
            <<"sd_xl_turbo_1.0_fp16.safetensors">>, FALSE, <<>>),
       Node("22", "SDTurboScheduler", <<Input("model")>>, TRUE, <<"1", "1">>, FALSE, <<>>),
       Node("25", "PreviewImage", <<Input("images")>>, TRUE, <<>>, FALSE, <<>>),
       Node("27", "SaveImage", <<Input("images")>>, TRUE, <<"MaiVid_Scenes">>, FALSE, <<>>) >>

\* _create_sd3_workflow, lines 269-381; the two prompt nodes carry a title
Sd3Workflow ==
    << Node("3", "KSampler",
            <<Input("model"), Input("positive"), Input("negative"),
              Input("latent_image")>>,
            TRUE, <<"0", "randomize", "8", "4.01", "euler", "sgm_uniform", "1">>,
            FALSE, <<>>),
       Node("4", "CheckpointLoaderSimple", <<>>, TRUE,
            <<"sd3.5_large_fp8_scaled.safetensors">>, FALSE, <<>>),
       Node("8", "VAEDecode", <<Input("samples"), Input("vae")>>, FALSE, <<>>, FALSE, <<>>),
       Node("9", "SaveImage", <<Input("images")>>, TRUE, <<"MaiVid_Scenes">>, FALSE, <<>>),
       Node("16", "CLIPTextEncode", <<Input("clip")>>, TRUE, <<PositivePrompt>>, FALSE, <<>>)
           @@ [title |-> "Positive Prompt"],
       Node("40", "CLIPTextEncode", <<Input("clip")>>, TRUE, <<NegativePrompt>>, FALSE, <<>>)
           @@ [title |-> "Negative Prompt"],
       Node("53", "EmptySD3LatentImage", <<>>, TRUE, <<"1024", "576", "1">>, FALSE, <<>>) >>

\* the parameter each slot of widgets_values holds in the default templates,
\* by node type
WidgetParams(type) ==
    IF type = "CLIPTextEncode" THEN <<"text">>
    ELSE IF type \in {"EmptyLatentImage", "EmptySD3LatentImage"}
    THEN <<"width", "height", "batch_size">>
    ELSE IF type = "CheckpointLoaderSimple" THEN <<"ckpt_name">>
    ELSE IF type = "SaveImage" THEN <<"filename_prefix">>
    ELSE IF type = "KSampler"
    THEN <<"seed", "control_after_generate", "steps", "cfg", "sampler_name",
           "scheduler", "denoise">>
    ELSE IF type = "SamplerCustom"
    THEN <<"add_noise", "noise_seed", "control_after_generate", "cfg">>
    ELSE IF type = "KSamplerSelect" THEN <<"sampler_name">>
    ELSE IF type = "SDTurboScheduler" THEN <<"steps", "denoise">>
    ELSE <<>>

ModelTypes == {"sdxl_turbo", "sd3", "flux"}

AspectRatioNames == {"16:9", "1:1", "9:16", "21:9", "4:3", "2:1"}

\* ASPECT_RATIOS.get(ar, default), lines 34-40
ASPECT_RATIOS(ar, default) ==
    IF ar = "16:9" THEN <<"896", "504">>
    ELSE IF ar = "1:1" THEN <<"768", "768">>
    ELSE IF ar = "9:16" THEN <<"504", "896">>
    ELSE IF ar = "21:9" THEN <<"1024", "440">>
    ELSE IF ar = "4:3" THEN <<"768", "576">>
    ELSE default

\* lines 424-438: what the model type selects
SceneSettings(mt, ar) ==
    IF mt = "sd3"
    THEN [nodes |-> Sd3Workflow, size |-> ASPECT_RATIOS(ar, <<"1024", "576">>),
          node_type |-> "EmptySD3LatentImage",
          model_file |-> "sd3.5_large_fp8_scaled.safetensors"]
    ELSE [nodes |-> SdxlTurboWorkflow, size |-> ASPECT_RATIOS(ar, <<"896", "504">>),
          node_type |-> "EmptyLatentImage",
          model_file |-> IF mt = "flux" THEN "Flux.safetensors"
                         ELSE "sd_xl_turbo_1.0_fp16.safetensors"]

ScenePrompt == "a scene, cinematic style, high quality, detailed"
OutputPrefix == "scene_1_abcd1234"
OutputDir == "outputs/scenes"

\* lines 473-480: a CLIPTextEncode node that is not a negative prompt
IsPositivePrompt(node) ==
    /\ node.type = "CLIPTextEncode"
    /\ ~("title" \in DOMAIN node /\ node.title = "Negative Prompt")
    /\ node.has_widgets_values /\ Len(node.widgets_values) > 0
    /\ node.widgets_values[1] # NegativePrompt

\* the id of the last node of the type, "None" when there is none
LastId(nodes, Is(_)) ==
    LET found == { i \in 1..Len(nodes) : Is(nodes[i]) }
    IN IF found = {} THEN "None"
       ELSE nodes[CHOOSE i \in found : \A k \in found : k <= i].id

\* lines 467-494: the nodes generate_scene decides to patch
FoundNodes(nodes, node_type) ==
    [positive_node_id |-> LastId(nodes, IsPositivePrompt),
     checkpoint_node_id |-> LastId(nodes, LAMBDA n : n.type = "CheckpointLoaderSimple"),
     resolution_node_id |-> LastId(nodes, LAMBDA n : n.type = node_type),
     save_node_id |-> LastId(nodes, LAMBDA n : n.type = "SaveImage")]

\* lines 467-524: the updates for the loaded nodes in the order they are
\* put into the dict
WorkflowUpdates(nodes, s, mt) ==
    LET f == FoundNodes(nodes, s.node_type)
    IN (IF f.positive_node_id # "None"
        THEN << <<<<f.positive_node_id, "text">>, ScenePrompt>> >> ELSE <<>>)
       \o (IF f.checkpoint_node_id # "None" /\ mt # "sdxl_turbo"
           THEN << <<<<f.checkpoint_node_id, "ckpt_name">>, s.model_file>> >>
           ELSE <<>>)
       \o (IF f.resolution_node_id # "None"
           THEN << <<<<f.resolution_node_id, "width">>, s.size[1]>>,
                   <<<<f.resolution_node_id, "height">>, s.size[2]>> >>
           ELSE <<>>)
       \o (IF f.save_node_id # "None"
           THEN << <<<<f.save_node_id, "filename_prefix">>, OutputPrefix>>,
                   <<<<f.save_node_id, "output_dir">>, OutputDir>> >>
           ELSE <<>>)

\* the updates for the default template of the model type
SceneUpdates(mt, ar) ==
    WorkflowUpdates(SceneSettings(mt, ar).nodes, SceneSettings(mt, ar), mt)

\* the words of the negative-prompt lists (fast_renderer.py line 482,
\* interface.py lines 459 and 465) that occur in the text
NegWordsIn(text) ==
    IF text = NegativePrompt THEN {"worst quality", "low quality"} ELSE {}

\* interface.py lines 459, 465
InterfaceNegWords == {"negative", "bad", "ugly", "low quality"}

\* interface.py line 455
HasTextInput(node) == HasInputDict(node) /\ "text" \in DOMAIN node.input_dict

\* interface.py lines 453-467: the node is taken as the positive prompt
IsTextNode(node) ==
    /\ node.type = "CLIPTextEncode"
    /\ IF HasTextInput(node)
       THEN NegWordsIn(node.input_dict.text) \cap InterfaceNegWords = {}
       ELSE /\ node.has_widgets_values /\ Len(node.widgets_values) > 0
            /\ NegWordsIn(node.widgets_values[1]) \cap InterfaceNegWords = {}

\* the id of the first node whose index is in found, "None" when there is
\* none
FirstIdOf(nodes, found) ==
    IF found = {} THEN "None"
    ELSE nodes[CHOOSE i \in found : \A k \in found : i <= k].id

\* interface.py lines 448-493: the first positive text node, else as the
\* last resort the first node that has a text input
ChooseTextNode(nodes) ==
    LET first == FirstIdOf(nodes, { i \in 1..Len(nodes) : IsTextNode(nodes[i]) })
    IN IF first # "None" THEN first
       ELSE FirstIdOf(nodes, { i \in 1..Len(nodes) : HasTextInput(nodes[i]) })

\* the nodes the loop of lines 452-471 visits: it breaks at the first
\* positive text node
Visited(nodes) ==
    LET found == { i \in 1..Len(nodes) : IsTextNode(nodes[i]) }
    IN IF found = {} THEN nodes
       ELSE SubSeq(nodes, 1, CHOOSE i \in found : \A k \in found : i <= k)

\* interface.py lines 470-503: the updates generate_scene builds; without
\* a text update the call returns an error before the SaveImage entries
InterfaceUpdates(nodes) ==
    LET text_id == ChooseTextNode(nodes)
        save_node_id == LastId(Visited(nodes), LAMBDA n : n.type = "SaveImage")
    IN IF text_id = "None" THEN <<>>
       ELSE << <<<<text_id, "text">>, ScenePrompt>> >>
            \o (IF save_node_id # "None"
                THEN << <<<<save_node_id, "filename_prefix">>, OutputPrefix>>,
                        <<<<save_node_id, "output_dir">>, OutputDir>> >>
                ELSE <<>>)

\* lines 530-532: widgets_values[0] of every sampler node is set
SeedSamplers(h, workflow, value) ==
    [a \in 1..Len(h) |->
        IF /\ \E i \in 1..Len(workflow) : workflow[i] = a
           /\ h[a].type \in {"KSampler", "SamplerCustom"}
           /\ h[a].has_widgets_values
           /\ Len(h[a].widgets_values) > 0
        THEN [h[a] EXCEPT !.widgets_values[1] = value]
        ELSE h[a]]

\* generate_scene is not running
SceneIdle ==
    /\ spc = "idle"
    /\ model_type = "sdxl_turbo"
    /\ aspect_ratio = "16:9"
    /\ updated_workflow = <<>>
    /\ seed = "None"

---------------------------------------------------------------------------
(* fix_workflow_file (src/backend/comfyui/fix_workflow.py lines 14-110)    *)
(* A link is the list [link_id, origin_node_id, origin_slot,               *)
(* target_node_id, target_slot, type]; a node of the file is its id, type  *)
(* and order (-1 when the node has no "order").                            *)

FileNode(id, type, order) == [id |-> id, type |-> type, order |-> order]

Workflow(nodes, links) == [nodes |-> nodes, links |-> links]

\* the "inputs" and "outputs" of a node: the link of each input slot (0
\* for null) and the links of each output slot
Slotted(node, inputs, outputs) ==
    node @@ [inputs |-> inputs, outputs |-> outputs]

\* lines 32-55
preview_node == Slotted(FileNode(25, "PreviewImage", 9), <<53>>, <<>>)

\* lines 28-74: the PreviewImage node and its link are added when missing
AddPreview(w) ==
    IF \E i \in 1..Len(w.nodes) : w.nodes[i].id = 25 THEN w
    ELSE LET nodes == Append(w.nodes, preview_node)
             vae == { i \in 1..Len(nodes) : nodes[i].type = "VAEDecode" }
             first == CHOOSE i \in vae : \A k \in vae : i <= k
         IN IF (\E i \in 1..Len(w.links) : w.links[i][1] = 53) \/ vae = {}
            THEN Workflow(nodes, w.links)
            ELSE Workflow(nodes,
                          Append(w.links, <<53, nodes[first].id, 0, 25, 0, "IMAGE">>))

\* lines 77-81: nodes without an order are numbered from 0
AddOrder(nodes) ==
    [i \in 1..Len(nodes) |->
        IF nodes[i].order >= 0 THEN nodes[i]
        ELSE [nodes[i] EXCEPT !.order =
                 Cardinality({ k \in 1..(i - 1) : nodes[k].order < 0 })]]

\* variant: a link is kept when one of its ends exists
link_valid_Mut(node_ids, link) ==
    link[2] \in node_ids \/ link[4] \in node_ids

\* line 93
link_valid(node_ids, link) ==
    link[2] \in node_ids /\ link[4] \in node_ids

\* lines 22-110: what the call returns and what it wrote; unpacking a link
\* of more than six elements (line 90) and a failing write raise, and the
\* handler of line 108 turns that into False
fix_workflow_file(w, io) ==
    LET p == AddPreview(w)
        nodes == AddOrder(p.nodes)
        node_ids == { nodes[i].id : i \in 1..Len(nodes) }
        long == \E i \in 1..Len(p.links) : Len(p.links[i]) > 6
        valid_links == SelectSeq(p.links,
                           LAMBDA link : Len(link) >= 6 /\ link_valid(node_ids, link))
    IN IF long \/ io # "ok"
       THEN [success |-> FALSE, written |-> FALSE, workflow |-> Workflow(<<>>, <<>>)]
       ELSE [success |-> TRUE, written |-> TRUE,
             workflow |-> Workflow(nodes, valid_links)]

FixOutcomes == {"ok", "write_error"}

\* the nodes a workflow file may hold
FileNodeLists ==
    { <<FileNode(1, "KSampler", 0), FileNode(2, "SaveImage", 1)>>,
      <<FileNode(1, "KSampler", -1), FileNode(2, "SaveImage", -1)>>,
      <<FileNode(1, "KSampler", 0), FileNode(8, "VAEDecode", 1)>>,
      <<FileNode(8, "VAEDecode", 0), FileNode(25, "PreviewImage", -1)>>,
      <<FileNode(2, "SaveImage", 0)>>,
      <<Slotted(FileNode(1, "KSampler", 0), <<>>, <<{1}>>),
        Slotted(FileNode(2, "SaveImage", 1), <<1>>, <<>>)>>,
      <<Slotted(FileNode(1, "KSampler", 0), <<>>, <<{2}>>),
        Slotted(FileNode(8, "VAEDecode", 1), <<>>, <<{53}>>),
        Slotted(FileNode(25, "PreviewImage", 2), <<53>>, <<>>)>> }

\* the links a workflow file may hold: between nodes 1, 2, 8, 25 and the
\* missing node 99, too short, and too long
FileLinks ==
    { <<1, 1, 0, 2, 0, "IMAGE">>, <<1, 99, 0, 2, 0, "IMAGE">>,
      <<2, 1, 0, 99, 0, "LATENT">>, <<53, 8, 0, 25, 0, "IMAGE">>,
      <<3, 1, 0>>, <<4, 1, 0, 2, 0, "IMAGE", "x">> }

FileLinkLists == UNION { [1..n -> FileLinks] : n \in 0..MaxLinks }

NotFixed == [success |-> FALSE, written |-> FALSE, workflow |-> Workflow(<<>>, <<>>)]

\* fix_workflow_file is not running
FixIdle ==
    /\ fpc = "idle"
    /\ fix_in = Workflow(<<>>, <<>>)
    /\ fix_io = "ok"
    /\ fix_out = NotFixed

---------------------------------------------------------------------------
(* State machine *)

\* no caller drives the tracker directly
TrackerIdle ==
    /\ tpc = "idle"
    /\ held = [j \in JobIds |-> "none"]
    /\ before_restart = <<>>
    /\ seen = <<>>
    /\ op_job = "none"
    /\ ops = 0


\* outcomes of _save_progress in the pipeline: the write of the progress
\* file succeeds (SaveProgress also covers the logged I/O error)
SaveOutcomes == {TRUE}
SceneCountArgs ==
    {None} \cup { Some(n) : n \in NegativeOverrides \cup (0..MaxScenes) }

\* one tracker call: the mutation and the save made under the lock
Tracker(newdata, job, ok) ==
    /\ progress_data' = newdata
    /\ progress_files' = SaveProgress(progress_files, newdata, job, ok)

\* no job has been submitted
PipelineInit ==
    /\ progress_data = <<>>
    /\ progress_files = <<>>
    /\ gpc = "start"
    /\ job_id = "none"
    /\ scene_count = None
    /\ pc = "idle"
    /\ download_error = "None"
    /\ metadata = NoMetadata
    /\ lyrics_lines = 0
    /\ scene_descriptions = <<>>
    /\ scene_results = <<>>
    /\ successful_scenes = <<>>
    /\ processed_scenes = <<>>
    /\ scene_videos = <<>>
    /\ idx = 0
    /\ output_path = "None"
    /\ combine_result = "none"
    /\ audio_result = "none"
    /\ mux_output = "None"
    /\ render_calls = 0
    /\ encoder_calls = 0
    /\ stage_log = <<>>
    /\ query_result = "none"
    /\ temp_dir = FALSE
    /\ combined = NotCombined

\* nothing calls the compositor directly
CombineIdle ==
    /\ cpc = "idle"
    /\ in_video_paths = <<>>
    /\ fs = <<>>
    /\ in_transition_type = DefaultTransitionType
    /\ in_transition_duration = DefaultTransitionDuration

\* no text node is being chosen
PromptIdle ==
    /\ qpc = "idle"
    /\ text_node_id = "None"

\* the prompt ids queue_prompt returned to the job threads in flight
Handles == 1..MaxHandles

\* the backend: its queue, the prompt it executes (0 for none), its
\* history, the prompt whose failure its status reports (0 for none) and
\* the prompts that failed
BackendIdle ==
    [pending |-> {}, executing |-> 0, history |-> {}, error |-> 0,
     failures |-> {}]

\* no job thread waits on the shared client
WaitIdle ==
    /\ waiters = [h \in Handles |-> "idle"]
    /\ backend = BackendIdle

\* no job writes video files
FilesIdle ==
    /\ clock = 0
    /\ kpc = [j \in JobIds |-> "idle"]
    /\ titles = [j \in JobIds |-> <<>>]
    /\ out_names = [j \in JobIds |-> "None"]
    /\ written = {}

Init == PipelineInit /\ WaitIdle /\ FilesIdle /\ PromptIdle /\ CombineIdle /\ ClientIdle /\ PatchIdle /\ SceneIdle
        /\ FixIdle /\ TrackerIdle

workerLocals == <<download_error, metadata, lyrics_lines, scene_descriptions,
                  scene_results, successful_scenes, processed_scenes,
                  scene_videos, idx, output_path, combine_result, audio_result,
                  mux_output, render_calls, encoder_calls>>

(* generate_from_url, lines 89-127 *)

\* variant: the job record is not created before the thread starts
G_CreateJob_Mut ==
    /\ gpc = "start"
    /\ UNCHANGED <<componentVars, combined, temp_dir>>
    /\ \E j \in JobIds, arg \in SceneCountArgs :
          /\ job_id' = j
          /\ scene_count' = arg
    /\ stage_log' = Append(stage_log, "initializing")
    /\ gpc' = "created"
    /\ UNCHANGED <<progress_data, progress_files, pc, workerLocals, query_result>>

\* lines 89-102: draw the job id, create the job record
G_CreateJob ==
    /\ gpc = "start"
    /\ UNCHANGED <<componentVars, combined, temp_dir>>
    /\ \E j \in JobIds, arg \in SceneCountArgs, ok \in SaveOutcomes :
          /\ job_id' = j
          /\ scene_count' = arg
          /\ Tracker(create_job(progress_data, j, 0), j, ok)
    /\ stage_log' = Append(stage_log, "initializing")
    /\ gpc' = "created"
    /\ UNCHANGED <<pc, workerLocals, query_result>>

\* line 103
G_UpdateStage ==
    /\ gpc = "created"
    /\ UNCHANGED <<componentVars, combined, temp_dir>>
    /\ \E ok \in SaveOutcomes :
          Tracker(update_stage(progress_data, job_id, "download",
                               "Downloading audio from URL"), job_id, ok)
    /\ stage_log' = Append(stage_log, "download")
    /\ gpc' = "staged"
    /\ UNCHANGED <<job_id, scene_count, pc, workerLocals, query_result>>

\* lines 106-109: threading.Thread(...).start()
G_StartThread ==
    /\ gpc = "staged"
    /\ UNCHANGED <<componentVars, combined, temp_dir>>
    /\ gpc' = "spawned"
    /\ pc' = "begin"
    /\ UNCHANGED <<progress_data, progress_files, job_id, scene_count,
                   workerLocals, stage_log, query_result>>

\* lines 112-127: the caller has the job id
G_Return ==
    /\ gpc = "spawned"
    /\ UNCHANGED <<componentVars, combined, temp_dir>>
    /\ gpc' = "returned"
    /\ UNCHANGED <<progress_data, progress_files, job_id, scene_count, pc,
                   workerLocals, stage_log, query_result>>

(* get_job_status, lines 472-482, called with the returned job id *)
Q_GetJobStatus ==
    /\ gpc = "returned"
    /\ UNCHANGED <<componentVars, combined, temp_dir>>
    /\ progress_data' = get_progress_data(progress_data, progress_files, job_id)
    /\ query_result' =
          IF get_progress_found(progress_data, progress_files, job_id)
          THEN "snapshot" ELSE "not_found"
    /\ UNCHANGED <<progress_files, gpc, job_id, scene_count, pc, workerLocals,
                   stage_log>>

(* _generate_from_url_worker, lines 151-470 *)

\* a fail_job call followed by the end of the worker
FailAndEnd(error_message) ==
    /\ \E ok \in SaveOutcomes :
          Tracker(fail_job(progress_data, job_id, error_message), job_id, ok)
    /\ pc' = "done"

\* line 154
W_Begin ==
    /\ pc = "begin"
    /\ UNCHANGED <<componentVars, combined, temp_dir>>
    /\ \E ok \in SaveOutcomes :
          Tracker(update_stage(progress_data, job_id, "download",
                               "Downloading audio from URL"), job_id, ok)
    /\ stage_log' = Append(stage_log, "download")
    /\ pc' = "download"
    /\ UNCHANGED <<gpc, job_id, scene_count, workerLocals, query_result>>

\* lines 156-164: download_from_url returns an error, raises, or returns
\* the file and its metadata
W_Download ==
    /\ pc = "download"
    /\ UNCHANGED <<componentVars, combined, temp_dir>>
    /\ \/ \E e \in DownloadErrors :
             /\ download_error' = e
             /\ FailAndEnd(<<"Download failed", e>>)
             /\ UNCHANGED <<metadata, stage_log>>
       \/ /\ FailAndEnd(<<"Error in video generation process", "download">>)
          /\ UNCHANGED <<download_error, metadata, stage_log>>
       \/ \E md \in Metadatas, ok \in SaveOutcomes :
             /\ metadata' = md
             /\ Tracker(update_stage(progress_data, job_id, "lyrics",
                                     "Extracting lyrics from audio"), job_id, ok)
             /\ stage_log' = Append(stage_log, "lyrics")
             /\ pc' = "lyrics"
             /\ UNCHANGED download_error
    /\ UNCHANGED <<gpc, job_id, scene_count, lyrics_lines, scene_descriptions,
                   scene_results, successful_scenes, processed_scenes,
                   scene_videos, idx, output_path, combine_result, audio_result,
                   mux_output, render_calls, encoder_calls, query_result>>

\* variant: an exception of extract_lyrics ends the worker unhandled
W_Lyrics_Mut ==
    /\ pc = "lyrics"
    /\ UNCHANGED <<componentVars, combined, temp_dir>>
    /\ \/ /\ pc' = "done"
          /\ UNCHANGED <<progress_data, progress_files, lyrics_lines, scene_count>>
       \/ \E n \in 0..MaxLines, ok \in SaveOutcomes :
             LET count == DetermineSceneCount(scene_count, metadata, n) IN
             /\ lyrics_lines' = n
             /\ scene_count' = Some(count)
             /\ Tracker(set_total_scenes(progress_data, job_id, count), job_id, ok)
             /\ pc' = "plan"
    /\ UNCHANGED <<gpc, job_id, download_error, metadata, scene_descriptions,
                   scene_results, successful_scenes, processed_scenes,
                   scene_videos, idx, output_path, combine_result, audio_result,
                   mux_output, render_calls, encoder_calls, stage_log,
                   query_result>>

\* lines 165-209: extract_lyrics raises, or gives the lyric lines; the scene
\* count is settled and stored with set_total_scenes
W_Lyrics ==
    /\ pc = "lyrics"
    /\ UNCHANGED <<componentVars, combined, temp_dir>>
    /\ \/ /\ FailAndEnd(<<"Error in video generation process", "lyrics">>)
          /\ UNCHANGED <<lyrics_lines, scene_count>>
       \/ \E n \in 0..MaxLines, ok \in SaveOutcomes :
             LET count == DetermineSceneCount(scene_count, metadata, n) IN
             /\ lyrics_lines' = n
             /\ scene_count' = Some(count)
             /\ Tracker(set_total_scenes(progress_data, job_id, count), job_id, ok)
             /\ pc' = "plan"
    /\ UNCHANGED <<gpc, job_id, download_error, metadata, scene_descriptions,
                   scene_results, successful_scenes, processed_scenes,
                   scene_videos, idx, output_path, combine_result, audio_result,
                   mux_output, render_calls, encoder_calls, stage_log,
                   query_result>>

\* variant: the planning step names the download stage again
W_Plan_Mut ==
    /\ pc = "plan"
    /\ UNCHANGED <<componentVars, combined, temp_dir>>
    /\ \E ok \in SaveOutcomes :
          Tracker(update_stage(progress_data, job_id, "download",
                               "Creating scene descriptions from lyrics"),
                  job_id, ok)
    /\ stage_log' = Append(stage_log, "download")
    /\ pc' = "describe"
    /\ UNCHANGED <<gpc, job_id, scene_count, workerLocals, query_result>>

\* line 212
W_Plan ==
    /\ pc = "plan"
    /\ UNCHANGED <<componentVars, combined, temp_dir>>
    /\ \E ok \in SaveOutcomes :
          Tracker(update_stage(progress_data, job_id, "scene_planning",
                               "Creating scene descriptions from lyrics"),
                  job_id, ok)
    /\ stage_log' = Append(stage_log, "scene_planning")
    /\ pc' = "describe"
    /\ UNCHANGED <<gpc, job_id, scene_count, workerLocals, query_result>>

\* lines 214-254: build the scene descriptions (line 218 raises on a zero
\* scene count), store them in the job record
W_Describe ==
    /\ pc = "describe"
    /\ UNCHANGED <<componentVars, combined, temp_dir>>
    /\ IF DescribeRaises(lyrics_lines, scene_count[1])
       THEN /\ FailAndEnd(<<"Error in video generation process", "describe">>)
            /\ UNCHANGED scene_descriptions
       ELSE LET sd == SceneDescriptions(lyrics_lines, scene_count[1])
                loaded == get_progress_data(progress_data, progress_files, job_id)
            IN /\ scene_descriptions' = sd
               /\ IF job_id \in DOMAIN loaded
                  THEN \E ok \in SaveOutcomes :
                         Tracker(update_job(loaded, job_id,
                                   [loaded[job_id] EXCEPT !.scene_descriptions = sd]),
                                 job_id, ok)
                  ELSE UNCHANGED <<progress_data, progress_files>>
               /\ pc' = "scene_gen"
    /\ UNCHANGED <<gpc, job_id, scene_count, download_error, metadata,
                   lyrics_lines, scene_results, successful_scenes,
                   processed_scenes, scene_videos, idx, output_path,
                   combine_result, audio_result, mux_output, render_calls,
                   encoder_calls, stage_log, query_result>>

\* line 257
W_SceneGenStage ==
    /\ pc = "scene_gen"
    /\ UNCHANGED <<componentVars, combined, temp_dir>>
    /\ \E ok \in SaveOutcomes :
          Tracker(update_stage(progress_data, job_id, "scene_generation",
                               "Generating scene images"), job_id, ok)
    /\ stage_log' = Append(stage_log, "scene_generation")
    /\ pc' = "render"
    /\ idx' = 0
    /\ UNCHANGED <<gpc, job_id, scene_count, download_error, metadata,
                   lyrics_lines, scene_descriptions, scene_results,
                   successful_scenes, processed_scenes, scene_videos,
                   output_path, combine_result, audio_result, mux_output,
                   render_calls, encoder_calls, query_result>>

\* variant: the batch loop stops at the first scene that fails
W_RenderScene_Mut ==
    /\ pc = "render"
    /\ UNCHANGED <<componentVars, combined, temp_dir>>
    /\ idx < Len(scene_descriptions)
    /\ \E success \in BOOLEAN :
          /\ scene_results' = Append(scene_results,
                [scene_id |-> scene_descriptions[idx + 1].scene_id,
                 success |-> success])
          /\ idx' = IF success THEN idx + 1 ELSE Len(scene_descriptions)
    /\ render_calls' = render_calls + 1
    /\ UNCHANGED <<progress_data, progress_files, gpc, job_id, scene_count, pc,
                   download_error, metadata, lyrics_lines, scene_descriptions,
                   successful_scenes, processed_scenes, scene_videos,
                   output_path, combine_result, audio_result, mux_output,
                   encoder_calls, stage_log, query_result>>

\* fast_renderer.py lines 605-631: one iteration of the batch loop; the
\* scene's generate_scene call gives an image or an error, and the loop
\* goes on in both cases
W_RenderScene ==
    /\ pc = "render"
    /\ UNCHANGED <<componentVars, combined, temp_dir>>
    /\ idx < Len(scene_descriptions)
    /\ \E success \in BOOLEAN :
          scene_results' = Append(scene_results,
              [scene_id |-> scene_descriptions[idx + 1].scene_id,
               success |-> success])
    /\ render_calls' = render_calls + 1
    /\ idx' = idx + 1
    /\ UNCHANGED <<progress_data, progress_files, gpc, job_id, scene_count, pc,
                   download_error, metadata, lyrics_lines, scene_descriptions,
                   successful_scenes, processed_scenes, scene_videos,
                   output_path, combine_result, audio_result, mux_output,
                   encoder_calls, stage_log, query_result>>

\* fast_renderer.py lines 640-647 (line 641 raises on an empty batch), then
\* video_generator.py lines 273-285
W_BatchEnd ==
    /\ pc = "render"
    /\ UNCHANGED <<componentVars, combined, temp_dir>>
    /\ idx = Len(scene_descriptions)
    /\ IF Len(scene_descriptions) = 0
       THEN /\ FailAndEnd(<<"Error in video generation process", "batch">>)
            /\ UNCHANGED <<successful_scenes, stage_log>>
       ELSE LET ok_scenes == SuccessfulOf(scene_results) IN
            /\ successful_scenes' = ok_scenes
            /\ IF Len(ok_scenes) < MinSuccessfulScenes
               THEN /\ FailAndEnd(<<"Not enough scenes were successfully generated",
                                    ToString(Len(ok_scenes))>>)
                    /\ UNCHANGED stage_log
               ELSE /\ \E ok \in SaveOutcomes :
                         Tracker(update_stage(progress_data, job_id, "video_creation",
                                   "Creating video from scenes and audio"), job_id, ok)
                    /\ stage_log' = Append(stage_log, "video_creation")
                    /\ pc' = "prepare"
    /\ UNCHANGED <<gpc, job_id, scene_count, download_error, metadata,
                   lyrics_lines, scene_descriptions, scene_results,
                   processed_scenes, scene_videos, idx, output_path,
                   combine_result, audio_result, mux_output, render_calls,
                   encoder_calls, query_result>>

SceneIds(scenes) == { scenes[i].scene_id : i \in 1..Len(scenes) }

\* lines 288-340: keep the successful scenes whose image file exists, name
\* the output file
W_Prepare ==
    /\ pc = "prepare"
    /\ UNCHANGED <<componentVars, combined, temp_dir>>
    /\ \E on_disk \in SUBSET SceneIds(successful_scenes) :
          LET Exists(r) == r.scene_id \in on_disk
              kept == SelectSeq(successful_scenes, Exists)
          IN processed_scenes' = [i \in 1..Len(kept) |-> kept[i].scene_id]
    /\ \E path \in OutputPaths : output_path' = path
    /\ idx' = 0
    /\ pc' = "clips"
    /\ UNCHANGED <<progress_data, progress_files, gpc, job_id, scene_count,
                   download_error, metadata, lyrics_lines, scene_descriptions,
                   scene_results, successful_scenes, scene_videos,
                   combine_result, audio_result, mux_output, render_calls,
                   encoder_calls, stage_log, query_result>>

ClipOutcomes == {"ok", "encode_failed", "image_missing"}

\* lines 347-369: one iteration of the clip loop; a scene whose clip fails
\* is logged and left out
W_CreateSceneVideo ==
    /\ pc = "clips"
    /\ UNCHANGED <<componentVars, combined>>
    /\ idx < Len(processed_scenes)
    /\ temp_dir' = TRUE
    /\ \E outcome \in ClipOutcomes :
          /\ encoder_calls' = IF outcome = "image_missing" THEN encoder_calls
                               ELSE encoder_calls + 1
          /\ IF outcome = "ok"
             THEN /\ scene_videos' = Append(scene_videos, processed_scenes[idx + 1])
                  /\ \E ok \in SaveOutcomes :
                        Tracker(update_scene_progress(progress_data, job_id, idx),
                                job_id, ok)
             ELSE UNCHANGED <<scene_videos, progress_data, progress_files>>
    /\ idx' = idx + 1
    /\ UNCHANGED <<gpc, job_id, scene_count, pc, download_error, metadata,
                   lyrics_lines, scene_descriptions, scene_results,
                   successful_scenes, processed_scenes, output_path,
                   combine_result, audio_result, mux_output, render_calls,
                   stage_log, query_result>>

\* lines 303-322: the duration of every scene clip
SceneDuration(md, n) ==
    IF md.has_duration /\ md.parses
    THEN Max2(3, Min2(10, Round(md.seconds, n)))
    ELSE 5

\* processor.py line 215
ScenePath(scene_id) == "scene_" \o ToString(scene_id) \o ".mp4"

\* the clips create_scene_video wrote for the scenes of scene_videos
SceneClipFiles(scenes, duration) ==
    [p \in { ScenePath(scenes[k]) : k \in 1..Len(scenes) } |->
        LET k == CHOOSE k \in 1..Len(scenes) : ScenePath(scenes[k]) = p
        IN SourceClip(scenes[k], duration)]

ScenePaths(scenes) == [k \in 1..Len(scenes) |-> ScenePath(scenes[k])]

\* line 379
VideoWithoutAudio == "no_audio.mp4"

\* the call of lines 386-391
CombineSceneVideos(outcome) ==
    combine_videos_with_transitions(
        SceneClipFiles(scene_videos,
                       SceneDuration(metadata, Len(processed_scenes))),
        ScenePaths(scene_videos), VideoWithoutAudio, DefaultTransitionType,
        DefaultTransitionDuration, outcome)

\* variant: a failed composition marks the job failed but does not return
W_Combine_Mut ==
    /\ pc = "clips"
    /\ UNCHANGED componentVars
    /\ idx = Len(processed_scenes)
    /\ IF scene_videos = <<>>
       THEN /\ FailAndEnd(<<"Failed to create any scene videos", "">>)
            /\ UNCHANGED <<combine_result, encoder_calls, combined, temp_dir>>
       ELSE \/ /\ FailAndEnd(<<"Error creating video", "makedirs">>)
               /\ UNCHANGED <<combine_result, encoder_calls, combined, temp_dir>>
            \/ \E outcome \in CombineOutcomes(Len(scene_videos)) :
                  LET r == CombineSceneVideos(outcome) IN
                  /\ combined' = r
                  /\ temp_dir' = TRUE
                  /\ encoder_calls' = encoder_calls + r.runs
                  /\ combine_result' = IF r.success THEN "ok" ELSE "fail"
                  /\ pc' = "audio"
                  /\ \E ok \in SaveOutcomes :
                        Tracker(IF r.success
                                THEN update_transition_progress(progress_data,
                                        job_id, Len(scene_videos) - 1,
                                        Len(scene_videos) - 1)
                                ELSE fail_job(progress_data, job_id,
                                        <<"Error combining scenes", r.error>>),
                                job_id, ok)
    /\ UNCHANGED <<gpc, job_id, scene_count, download_error, metadata,
                   lyrics_lines, scene_descriptions, scene_results,
                   successful_scenes, processed_scenes, scene_videos, idx,
                   output_path, audio_result, mux_output, render_calls,
                   stage_log, query_result>>

\* lines 371-400: the check for an empty clip list, then
\* combine_videos_with_transitions over the clips in the order of
\* scene_videos
W_Combine ==
    /\ pc = "clips"
    /\ UNCHANGED componentVars
    /\ idx = Len(processed_scenes)
    /\ IF scene_videos = <<>>
       THEN /\ FailAndEnd(<<"Failed to create any scene videos", "">>)
            /\ UNCHANGED <<combine_result, encoder_calls, combined, temp_dir>>
       ELSE \/ /\ FailAndEnd(<<"Error creating video", "makedirs">>)
               /\ UNCHANGED <<combine_result, encoder_calls, combined, temp_dir>>
            \/ \E outcome \in CombineOutcomes(Len(scene_videos)) :
                  LET r == CombineSceneVideos(outcome)
                      num_transitions == Len(scene_videos) - 1
                  IN
                  /\ combined' = r
                  /\ temp_dir' = TRUE
                  /\ encoder_calls' = encoder_calls + r.runs
                  /\ IF r.success
                     THEN /\ combine_result' = "ok"
                          /\ \E ok \in SaveOutcomes :
                                Tracker(update_transition_progress(progress_data,
                                          job_id, num_transitions,
                                          num_transitions), job_id, ok)
                          /\ pc' = "audio"
                     ELSE /\ combine_result' = "fail"
                          /\ FailAndEnd(<<"Error combining scenes", r.error>>)
    /\ UNCHANGED <<gpc, job_id, scene_count, download_error, metadata,
                   lyrics_lines, scene_descriptions, scene_results,
                   successful_scenes, processed_scenes, scene_videos, idx,
                   output_path, audio_result, mux_output, render_calls,
                   stage_log, query_result>>

\* variant: the result of add_audio is not checked
W_AddAudio_Mut ==
    /\ pc = "audio"
    /\ UNCHANGED <<componentVars, combined, temp_dir>>
    /\ mux_output' = output_path
    /\ encoder_calls' = encoder_calls + 1
    /\ \E result \in {"ok", "fail"} : audio_result' = result
    /\ \E ok \in SaveOutcomes :
          Tracker(update_audio_progress(progress_data, job_id, 100), job_id, ok)
    /\ pc' = "complete"
    /\ UNCHANGED <<gpc, job_id, scene_count, download_error, metadata,
                   lyrics_lines, scene_descriptions, scene_results,
                   successful_scenes, processed_scenes, scene_videos, idx,
                   output_path, combine_result, render_calls, stage_log,
                   query_result>>

\* lines 402-418: add_audio writes output_path from the combined video
W_AddAudio ==
    /\ pc = "audio"
    /\ UNCHANGED <<componentVars, combined, temp_dir>>
    /\ mux_output' = output_path
    /\ encoder_calls' = encoder_calls + 1
    /\ \/ /\ audio_result' = "fail"
          /\ FailAndEnd(<<"Error adding audio", "">>)
       \/ /\ audio_result' = "ok"
          /\ \E ok \in SaveOutcomes :
                Tracker(update_audio_progress(progress_data, job_id, 100),
                        job_id, ok)
          /\ pc' = "complete"
    /\ UNCHANGED <<gpc, job_id, scene_count, download_error, metadata,
                   lyrics_lines, scene_descriptions, scene_results,
                   successful_scenes, processed_scenes, scene_videos, idx,
                   output_path, combine_result, render_calls, stage_log,
                   query_result>>

\* line 421
W_Complete ==
    /\ pc = "complete"
    /\ UNCHANGED <<componentVars, combined, temp_dir>>
    /\ \E ok \in SaveOutcomes :
          Tracker(complete_job(progress_data, job_id, output_path), job_id, ok)
    /\ pc' = "finish"
    /\ UNCHANGED <<gpc, job_id, scene_count, workerLocals, stage_log,
                   query_result>>

\* lines 423-463: cleanup (its errors are swallowed), then result.json is
\* written; an exception there reaches the handler of line 458
W_Finish ==
    /\ pc = "finish"
    /\ UNCHANGED <<componentVars, combined>>
    /\ temp_dir' = FALSE
    /\ \/ /\ pc' = "done"
          /\ UNCHANGED <<progress_data, progress_files>>
       \/ FailAndEnd(<<"Error creating video", "result.json">>)
    /\ UNCHANGED <<gpc, job_id, scene_count, workerLocals, stage_log,
                   query_result>>

Generate == G_CreateJob \/ G_UpdateStage \/ G_StartThread \/ G_Return

Worker ==
    \/ W_Begin \/ W_Download \/ W_Lyrics \/ W_Plan \/ W_Describe
    \/ W_SceneGenStage \/ W_RenderScene \/ W_BatchEnd \/ W_Prepare
    \/ W_CreateSceneVideo \/ W_Combine \/ W_AddAudio \/ W_Complete
    \/ W_Finish

Next == Generate \/ Worker \/ Q_GetJobStatus

Spec == Init /\ [][Next]_vars

\* the caller's thread and the worker thread both keep running: every
\* external call returns and the scheduler starves neither thread
FairSpec == Spec /\ WF_vars(Generate) /\ WF_vars(Worker)

---------------------------------------------------------------------------
(* The compositor called on its own: any list of distinct clips, any      *)
(* transition type and duration                                          *)

MaxClips == 3       \* longest clip list
MaxDuration == 3    \* longest clip and longest transition, in frames

ClipIds == 1..MaxClips
ClipDurations == 2..MaxDuration
TransitionDurations == 1..MaxDuration
TransitionTypes == SupportedTransitions \cup {"cut"}

ClipPath(k) == "clip_" \o ToString(k) \o ".mp4"
OutPath == "combined.mp4"

\* the lists of at most MaxClips distinct clips
ClipLists ==
    UNION { { ids \in [1..n -> ClipIds] :
                \A i, j \in 1..n : i # j => ids[i] # ids[j] } : n \in 0..MaxClips }

\* every clip is on disk, clip k with duration d[k]
ClipFiles(d) ==
    [p \in { ClipPath(k) : k \in ClipIds } |->
        LET k == CHOOSE k \in ClipIds : ClipPath(k) = p
        IN SourceClip(k, d[k])]

pipelineVars == <<progress_data, progress_files, gpc, job_id, scene_count, pc,
                  download_error, metadata, lyrics_lines, scene_descriptions,
                  scene_results, successful_scenes, processed_scenes,
                  scene_videos, idx, output_path, combine_result, audio_result,
                  mux_output, render_calls, encoder_calls, stage_log,
                  query_result, temp_dir>>

CombineInit ==
    /\ PipelineInit
    /\ PromptIdle
    /\ WaitIdle
    /\ FilesIdle
    /\ TrackerIdle
    /\ FixIdle
    /\ ClientIdle
    /\ PatchIdle
    /\ SceneIdle
    /\ cpc = "ready"
    /\ in_video_paths \in { [i \in 1..Len(ids) |-> ClipPath(ids[i])] : ids \in ClipLists }
    /\ fs \in { ClipFiles(d) : d \in [ClipIds -> ClipDurations] }
    /\ in_transition_type \in TransitionTypes
    /\ in_transition_duration \in TransitionDurations

\* one call of combine_videos_with_transitions
C_Combine ==
    /\ cpc = "ready"
    /\ \E outcome \in CombineOutcomes(Len(in_video_paths)) :
          combined' = combine_videos_with_transitions(fs, in_video_paths, OutPath,
                          in_transition_type, in_transition_duration, outcome)
    /\ cpc' = "returned"
    /\ UNCHANGED <<pipelineVars, clientVars, patchVars, sceneVars, fixVars,
                   trackerVars, promptVars, waitVars, fileVars,
                   in_video_paths, fs,
                   in_transition_type, in_transition_duration>>

CombineNext == C_Combine

CombineSpec == CombineInit /\ [][CombineNext]_vars

---------------------------------------------------------------------------
(* The client driven on its own *)

\* generate_scene is about to queue its prompt
ClientInit ==
    /\ PipelineInit
    /\ PromptIdle
    /\ WaitIdle
    /\ FilesIdle
    /\ TrackerIdle
    /\ FixIdle
    /\ CombineIdle
    /\ PatchIdle
    /\ SceneIdle
    /\ rpc = "queue"
    /\ now = 0
    /\ start_time = 0
    /\ timeout \in Timeouts
    /\ check_interval \in Intervals
    /\ prompt_id = "None"
    /\ status_data = "none"
    /\ wait_result = NoWaitResult
    /\ polls = 0
    /\ events = <<>>
    /\ image_paths = NoDownload
    /\ scene_return = SceneReturn("None", "None")

notClientVars == <<pipelineVars, combined, combineVars, patchVars, sceneVars,
                   fixVars, trackerVars, promptVars, waitVars, fileVars>>

\* fast_renderer.py lines 534-539, interface.py lines 165-212: queue_prompt
\* returns a prompt id or an error
R_Queue ==
    /\ rpc = "queue"
    /\ \E l \in Latencies : now' = now + l
    /\ \/ /\ prompt_id' = "p1"
          /\ events' = Append(events, "submit")
          /\ rpc' = "wait"
          /\ UNCHANGED scene_return
       \/ /\ events' = Append(events, "rejected")
          /\ scene_return' = SceneReturn("None", "Failed to queue prompt")
          /\ rpc' = "done"
          /\ UNCHANGED prompt_id
    /\ UNCHANGED <<notClientVars, start_time, timeout, check_interval,
                   status_data, wait_result, polls, image_paths>>

\* interface.py lines 271-272
R_WaitStart ==
    /\ rpc = "wait"
    /\ start_time' = now
    /\ rpc' = "loop"
    /\ UNCHANGED <<notClientVars, now, timeout, check_interval, prompt_id,
                   status_data, wait_result, polls, events, image_paths,
                   scene_return>>

\* variant: the deadline test lets an elapsed time equal to the timeout pass
R_LoopTest_Mut ==
    /\ rpc = "loop"
    /\ IF now - start_time <= timeout
       THEN /\ polls' = polls + 1
            /\ rpc' = "status"
            /\ UNCHANGED <<wait_result, events>>
       ELSE /\ wait_result' = Failed(TimeoutError)
            /\ events' = Append(events, "timed_out")
            /\ rpc' = "waited"
            /\ UNCHANGED polls
    /\ UNCHANGED <<notClientVars, now, start_time, timeout, check_interval,
                   prompt_id, status_data, image_paths, scene_return>>

\* line 274 and lines 336-337: the test of the while loop; a new iteration
\* starts, or the wait ends with the timeout error
R_LoopTest ==
    /\ rpc = "loop"
    /\ IF now - start_time < timeout
       THEN /\ polls' = polls + 1
            /\ rpc' = "status"
            /\ UNCHANGED <<wait_result, events>>
       ELSE /\ wait_result' = Failed(TimeoutError)
            /\ events' = Append(events, "timed_out")
            /\ rpc' = "waited"
            /\ UNCHANGED polls
    /\ UNCHANGED <<notClientVars, now, start_time, timeout, check_interval,
                   prompt_id, status_data, image_paths, scene_return>>

\* lines 275-296 and 330-334: the status request of one iteration
R_Status ==
    /\ rpc = "status"
    /\ \E answer \in StatusAnswers, l \in Latencies :
          IF answer \in {"exception", "http_error", "executing"}
          THEN /\ now' = now + l + check_interval
               /\ events' = Append(events, "poll")
               /\ rpc' = "loop"
               /\ UNCHANGED <<status_data, wait_result>>
          ELSE IF answer = "error"
          THEN /\ now' = now + l
               /\ events' = events \o <<"poll", "failed">>
               /\ wait_result' = Failed("backend error")
               /\ rpc' = "waited"
               /\ UNCHANGED status_data
          ELSE /\ now' = now + l
               /\ events' = Append(events, "poll")
               /\ status_data' = answer
               /\ rpc' = "history"
               /\ UNCHANGED wait_result
    /\ UNCHANGED <<notClientVars, start_time, timeout, check_interval,
                   prompt_id, polls, image_paths, scene_return>>

\* lines 298-318 and 334: the history request of one iteration
R_History ==
    /\ rpc = "history"
    /\ \E h \in HistoryAnswers, l \in Latencies :
          IF h = "outputs"
          THEN /\ \E o \in OutputDicts : wait_result' = Succeeded(o)
               /\ now' = now + l
               /\ events' = Append(events, "completed")
               /\ rpc' = "waited"
          ELSE IF status_data = "pending"
          THEN /\ now' = now + l + check_interval
               /\ rpc' = "loop"
               /\ UNCHANGED <<wait_result, events>>
          ELSE IF h = "absent"
          THEN /\ now' = now + l + 2 * check_interval
               /\ rpc' = "recheck"
               /\ UNCHANGED <<wait_result, events>>
          ELSE /\ now' = now + l + check_interval
               /\ rpc' = "loop"
               /\ UNCHANGED <<wait_result, events>>
    /\ UNCHANGED <<notClientVars, start_time, timeout, check_interval,
                   prompt_id, status_data, polls, image_paths, scene_return>>

\* variant: after the extended wait the next iteration starts without the
\* deadline test
R_Recheck_Mut ==
    /\ rpc = "recheck"
    /\ \E h \in HistoryAnswers, l \in Latencies :
          IF h = "outputs"
          THEN /\ \E o \in OutputDicts : wait_result' = Succeeded(o)
               /\ now' = now + l
               /\ events' = Append(events, "completed")
               /\ rpc' = "waited"
               /\ UNCHANGED polls
          ELSE /\ now' = now + l + check_interval
               /\ events' = Append(events, "recheck")
               /\ polls' = polls + 1
               /\ rpc' = "status"
               /\ UNCHANGED wait_result
    /\ UNCHANGED <<notClientVars, start_time, timeout, check_interval,
                   prompt_id, status_data, image_paths, scene_return>>

\* lines 319-334: the second history request after the extended wait; a
\* prompt that is still absent is logged and the loop goes on
R_Recheck ==
    /\ rpc = "recheck"
    /\ \E h \in HistoryAnswers, l \in Latencies :
          IF h = "outputs"
          THEN /\ \E o \in OutputDicts : wait_result' = Succeeded(o)
               /\ now' = now + l
               /\ events' = Append(events, "completed")
               /\ rpc' = "waited"
               /\ UNCHANGED polls
          ELSE /\ now' = now + l + check_interval
               /\ events' = Append(events, "recheck")
               /\ rpc' = "loop"
               /\ UNCHANGED <<wait_result, polls>>
    /\ UNCHANGED <<notClientVars, start_time, timeout, check_interval,
                   prompt_id, status_data, image_paths, scene_return>>

\* variant: the images are downloaded whatever the wait returned
R_AfterWait_Mut ==
    /\ rpc = "waited"
    /\ rpc' = "download"
    /\ UNCHANGED <<notClientVars, now, start_time, timeout, check_interval,
                   prompt_id, status_data, wait_result, polls, events,
                   image_paths, scene_return>>

\* fast_renderer.py lines 543-547: a wait that failed ends generate_scene
R_AfterWait ==
    /\ rpc = "waited"
    /\ IF wait_result.success
       THEN /\ rpc' = "download"
            /\ UNCHANGED scene_return
       ELSE /\ scene_return' = SceneReturn("None", wait_result.error)
            /\ rpc' = "done"
    /\ UNCHANGED <<notClientVars, now, start_time, timeout, check_interval,
                   prompt_id, status_data, wait_result, polls, events,
                   image_paths>>

Fetches(requested) == [i \in 1..Len(requested) |-> "fetch"]

\* fast_renderer.py lines 549-573: download_output_images, then the first
\* saved image, else a file found in the output directory, else an error
R_Download ==
    /\ rpc = "download"
    /\ \E fetch \in [OutputKeys -> GetImageOutcomes] :
          LET r == download_output_images(NoDownload, wait_result.outputs, fetch)
          IN /\ image_paths' = r
             /\ events' = events \o <<"download">> \o Fetches(r.requested)
             /\ IF r.raised
                THEN scene_return' = SceneReturn("None", "Failed to generate scene")
                ELSE IF DOMAIN r.result # {}
                THEN scene_return' =
                        SceneReturn(FirstImagePath(wait_result.outputs, r.result),
                                    "None")
                ELSE \/ scene_return' = SceneReturn("found in output_dir", "None")
                     \/ scene_return' = SceneReturn("None", "No images generated")
    /\ rpc' = "done"
    /\ UNCHANGED <<notClientVars, now, start_time, timeout, check_interval,
                   prompt_id, status_data, wait_result, polls>>

ClientNext ==
    \/ R_Queue \/ R_WaitStart \/ R_LoopTest \/ R_Status \/ R_History
    \/ R_Recheck \/ R_AfterWait \/ R_Download

ClientSpec == ClientInit /\ [][ClientNext]_vars

\* every request to the backend is answered and the client thread keeps
\* running
ClientFairSpec == ClientSpec /\ WF_vars(ClientNext)

---------------------------------------------------------------------------
(* The patcher driven on its own *)

\* load_workflow has returned a template; patch_interface may have been
\* imported
PatchInit ==
    /\ PipelineInit
    /\ PromptIdle
    /\ WaitIdle
    /\ FilesIdle
    /\ TrackerIdle
    /\ FixIdle
    /\ CombineIdle
    /\ ClientIdle
    /\ SceneIdle
    /\ \E nodes \in Templates :
          /\ heap = nodes
          /\ template = [i \in 1..Len(nodes) |-> i]
          /\ loaded_nodes = nodes
    /\ patch_applied \in BOOLEAN
    /\ patches = <<>>

\* one call of update_workflow with the loaded template
P_UpdateWorkflow ==
    /\ Len(patches) < MaxPatches
    /\ \E keys \in UpdateDicts :
          LET value == ValueOf(Len(patches) + 1)
              r == update_workflow(patch_applied, heap, template,
                                   [i \in 1..Len(keys) |-> <<keys[i], value>>])
          IN /\ heap' = r.heap
             /\ patches' = Append(patches,
                                  PatchCall(keys, value, r.workflow, r.raised))
    /\ UNCHANGED <<template, loaded_nodes, patch_applied>>
    /\ UNCHANGED <<pipelineVars, combined, combineVars, clientVars, sceneVars,
                   fixVars, trackerVars, promptVars, waitVars, fileVars>>

PatchNext == P_UpdateWorkflow

PatchSpec == PatchInit /\ [][PatchNext]_vars

---------------------------------------------------------------------------
(* generate_scene of the fast renderer driven on its own *)

\* generate_scene has loaded the default template of its model type
SceneInit ==
    /\ PipelineInit
    /\ PromptIdle
    /\ WaitIdle
    /\ FilesIdle
    /\ TrackerIdle
    /\ FixIdle
    /\ CombineIdle
    /\ ClientIdle
    /\ spc = "loaded"
    /\ model_type \in ModelTypes
    /\ aspect_ratio \in AspectRatioNames
    /\ heap = SceneSettings(model_type, aspect_ratio).nodes
    /\ template = [i \in 1..Len(heap) |-> i]
    /\ loaded_nodes = heap
    /\ patch_applied \in BOOLEAN
    /\ patches = <<>>
    /\ updated_workflow = <<>>
    /\ seed = "None"

\* lines 467-527: the nodes are looked up and the updates applied
S_Patch ==
    /\ spc = "loaded"
    /\ LET r == update_workflow(patch_applied, heap, template,
                                SceneUpdates(model_type, aspect_ratio))
       IN /\ heap' = r.heap
          /\ updated_workflow' = r.workflow
    /\ spc' = "patched"
    /\ UNCHANGED <<model_type, aspect_ratio, seed>>
    /\ UNCHANGED <<template, loaded_nodes, patch_applied, patches>>
    /\ UNCHANGED <<pipelineVars, combined, combineVars, clientVars, fixVars,
                   trackerVars, promptVars, waitVars, fileVars>>

\* lines 529-532: random.randint gives the seed
S_Seed ==
    /\ spc = "patched"
    /\ \E n \in 0..MaxSeed :
          /\ seed' = ToString(n)
          /\ heap' = SeedSamplers(heap, updated_workflow, ToString(n))
    /\ spc' = "seeded"
    /\ UNCHANGED <<model_type, aspect_ratio, updated_workflow>>
    /\ UNCHANGED <<template, loaded_nodes, patch_applied, patches>>
    /\ UNCHANGED <<pipelineVars, combined, combineVars, clientVars, fixVars,
                   trackerVars, promptVars, waitVars, fileVars>>

SceneNext == S_Patch \/ S_Seed

SceneSpec == SceneInit /\ [][SceneNext]_vars

---------------------------------------------------------------------------
(* The choice of the text node driven on its own: a workflow of            *)
(* text-encode nodes and a SaveImage node is loaded, and generate_scene of *)
(* the fast renderer (fast_renderer.py lines 465-527) or of the interface  *)
(* (interface.py lines 443-503) builds its updates and applies them.  The  *)
(* text of a node is in widgets_values[0] or in its dict of inputs.        *)

\* a text-encode node of a loaded workflow
TextNode(id, form, text, titled) ==
    (IF titled THEN [title |-> "Negative Prompt"] ELSE <<>>)
    @@ (IF form = "dict"
        THEN Node(id, "CLIPTextEncode", <<>>, FALSE, <<>>, FALSE, <<>>)
             @@ [input_dict |-> [text |-> text]]
        ELSE Node(id, "CLIPTextEncode", <<Input("clip")>>, TRUE, <<text>>,
                  FALSE, <<>>))

TextNodeKinds ==
    ({"widgets", "dict"} \X {PositivePrompt, NegativePrompt} \X {FALSE})
    \cup {<<"widgets", NegativePrompt, TRUE>>}

\* the workflows: up to MaxTextNodes text nodes, then the SaveImage node
TextWorkflows ==
    { [i \in 1..(Len(kinds) + 1) |->
          IF i <= Len(kinds)
          THEN TextNode(ToString(i), kinds[i][1], kinds[i][2], kinds[i][3])
          ELSE Node("27", "SaveImage", <<Input("images")>>, TRUE,
                    <<"MaiVid_Scenes">>, FALSE, <<>>)] :
        kinds \in UNION { [1..n -> TextNodeKinds] : n \in 0..MaxTextNodes } }

PromptInit ==
    /\ PipelineInit
    /\ WaitIdle
    /\ FilesIdle
    /\ CombineIdle
    /\ ClientIdle
    /\ FixIdle
    /\ TrackerIdle
    /\ \E nodes \in TextWorkflows :
          /\ heap = nodes
          /\ template = [i \in 1..Len(nodes) |-> i]
          /\ loaded_nodes = nodes
    /\ patch_applied \in BOOLEAN
    /\ patches = <<>>
    /\ spc = "idle"
    /\ model_type = "sdxl_turbo"
    /\ aspect_ratio = "16:9"
    /\ updated_workflow = <<>>
    /\ seed = "None"
    /\ qpc = "loaded"
    /\ text_node_id = "None"

\* fast_renderer.py lines 465-527
Q_FastRenderer ==
    /\ qpc = "loaded"
    /\ LET nodes == Content(heap, template)
           s == SceneSettings(model_type, aspect_ratio)
           r == update_workflow(patch_applied, heap, template,
                                WorkflowUpdates(nodes, s, model_type))
       IN /\ text_node_id' = FoundNodes(nodes, s.node_type).positive_node_id
          /\ heap' = r.heap
          /\ updated_workflow' = r.workflow
    /\ qpc' = "fast_patched"
    /\ UNCHANGED <<template, loaded_nodes, patch_applied, patches, spc,
                   model_type, aspect_ratio, seed>>
    /\ UNCHANGED <<pipelineVars, combined, combineVars, clientVars, fixVars,
                   trackerVars, waitVars, fileVars>>

\* interface.py lines 443-503
Q_Interface ==
    /\ qpc = "loaded"
    /\ LET nodes == Content(heap, template)
           updates == InterfaceUpdates(nodes)
           r == update_workflow(patch_applied, heap, template, updates)
       IN /\ text_node_id' = ChooseTextNode(nodes)
          /\ IF updates = <<>>
             THEN /\ qpc' = "error"
                  /\ UNCHANGED <<heap, updated_workflow>>
             ELSE /\ qpc' = "interface_patched"
                  /\ heap' = r.heap
                  /\ updated_workflow' = r.workflow
    /\ UNCHANGED <<template, loaded_nodes, patch_applied, patches, spc,
                   model_type, aspect_ratio, seed>>
    /\ UNCHANGED <<pipelineVars, combined, combineVars, clientVars, fixVars,
                   trackerVars, waitVars, fileVars>>

PromptNext == Q_FastRenderer \/ Q_Interface

PromptSpec == PromptInit /\ [][PromptNext]_vars

---------------------------------------------------------------------------
(* wait_for_prompt with several prompts in flight on the one client.       *)
(* VideoGenerator.__init__ (video_generator.py lines 53-56) builds one     *)
(* ComfyUIInterface, and every job thread calls it (interface.py lines     *)
(* 258-337).  The backend queues the prompts and executes one at a time;   *)
(* GET /prompt/status answers with the prompt in execution and with the    *)
(* error of a failed execution, and the answer does not say whose error    *)
(* it is.  backend.failures records the prompts whose execution failed.    *)

WaitInit ==
    /\ PipelineInit
    /\ CombineIdle
    /\ ClientIdle
    /\ PatchIdle
    /\ SceneIdle
    /\ FixIdle
    /\ TrackerIdle
    /\ PromptIdle
    /\ FilesIdle
    /\ waiters = [h \in Handles |-> "idle"]
    /\ backend = BackendIdle

notWaitVars == <<pipelineVars, combined, combineVars, clientVars, patchVars,
                 sceneVars, fixVars, trackerVars, promptVars, fileVars>>

\* interface.py lines 165-212 and 271-272: a job thread queues its prompt
\* and starts to wait for it
V_Queue(h) ==
    /\ waiters[h] = "idle"
    /\ waiters' = [waiters EXCEPT ![h] = "waiting"]
    /\ backend' = [backend EXCEPT !.pending = @ \cup {h}]
    /\ UNCHANGED notWaitVars

\* the backend takes a queued prompt into execution; the error of an
\* earlier failure stays in its status or is dropped
B_Execute(h) ==
    /\ backend.executing = 0
    /\ h \in backend.pending
    /\ \E keep \in BOOLEAN :
          backend' = [backend EXCEPT !.pending = @ \ {h},
                                     !.executing = h,
                                     !.error = IF keep THEN @ ELSE 0]
    /\ UNCHANGED <<waiters, notWaitVars>>

\* the execution ends and the prompt enters the history with its outputs
B_Complete ==
    /\ backend.executing # 0
    /\ backend' = [backend EXCEPT !.executing = 0,
                                  !.history = @ \cup {backend.executing}]
    /\ UNCHANGED <<waiters, notWaitVars>>

\* the execution fails and the status reports the error
B_Fail ==
    /\ backend.executing # 0
    /\ backend' = [backend EXCEPT !.executing = 0,
                                  !.error = backend.executing,
                                  !.failures = @ \cup {backend.executing}]
    /\ UNCHANGED <<waiters, notWaitVars>>

\* interface.py lines 275-334: what one iteration of the loop makes of the
\* answers of the backend
wait_iteration(h, status) ==
    IF status.error # 0 THEN "failed"
    ELSE IF status.executing = h THEN "waiting"
    ELSE IF h \in status.history THEN "succeeded"
    ELSE "waiting"

\* one iteration of the loop of wait_for_prompt(h); a status request that
\* raises or is not answered with 200 is retried (lines 278-281, 330-334)
V_Poll(h) ==
    /\ waiters[h] = "waiting"
    /\ \E answered \in BOOLEAN :
          waiters' = [waiters EXCEPT ![h] =
                         IF answered THEN wait_iteration(h, backend) ELSE @]
    /\ UNCHANGED <<backend, notWaitVars>>

\* interface.py lines 274 and 336-337: the deadline of wait_for_prompt(h)
\* has passed
V_Timeout(h) ==
    /\ waiters[h] = "waiting"
    /\ waiters' = [waiters EXCEPT ![h] = "timed_out"]
    /\ UNCHANGED <<backend, notWaitVars>>

WaitNext ==
    \/ \E h \in Handles : V_Queue(h)
    \/ \E h \in Handles : B_Execute(h)
    \/ B_Complete
    \/ B_Fail
    \/ \E h \in Handles : V_Poll(h)
    \/ \E h \in Handles : V_Timeout(h)

WaitSpec == WaitInit /\ [][WaitNext]_vars

---------------------------------------------------------------------------
(* Two jobs that create their videos concurrently (video_generator.py      *)
(* lines 332-430, processor.py lines 215 and 377-385).  A file is its      *)
(* directory, the parts of its name and a number; `written` keeps every    *)
(* file written with the job that wrote it.                                *)

File(dir, name, n) == [dir |-> dir, name |-> name, n |-> n]

\* titles of the metadata, as sequences of characters; the empty sequence
\* when the metadata has no title
Titles == { <<>>, <<"a">>, <<"a", " ", "b">>, <<"a", "_", "b">>, <<"a", "!">> }

\* line 334: the default of metadata.get
UnknownSong == <<"U", " ", "S">>

Alnum == {"a", "b", "U", "S"}

\* lines 334-335: spaces become underscores, then only alphanumerics and
\* the characters of '._- ' are kept (strip finds no space left)
safe_title(title) ==
    LET given == IF title = <<>> THEN UnknownSong ELSE title
        song_title == [i \in 1..Len(given) |->
                          IF given[i] = " " THEN "_" ELSE given[i]]
    IN SelectSeq(song_title, LAMBDA c : c \in Alnum \cup {".", "_", "-", " "})

\* lines 333-337
output_file(title, timestamp) == File("videos", safe_title(title), timestamp)

\* processor.py line 215, in the directory jobs/<job_id>/temp
scene_file(j, i) == File(j, <<"scene">>, i)

\* video_generator.py line 379
no_audio_file(j) == File(j, <<j, "no_audio">>, 0)

\* processor.py lines 377 and 385, in the temporary directory of the
\* processor
transition_file(j, i) == File("tmp", <<"transition_temp", j, "no_audio">>, i)

FilesInit ==
    /\ PipelineInit
    /\ CombineIdle
    /\ ClientIdle
    /\ PatchIdle
    /\ SceneIdle
    /\ FixIdle
    /\ TrackerIdle
    /\ PromptIdle
    /\ WaitIdle
    /\ clock = 0
    /\ kpc = [j \in JobIds |-> "ready"]
    /\ titles \in [JobIds -> Titles]
    /\ out_names = [j \in JobIds |-> "None"]
    /\ written = {}

notFileVars == <<pipelineVars, combined, combineVars, clientVars, patchVars,
                 sceneVars, fixVars, trackerVars, promptVars, waitVars>>

\* a second passes
K_Tick ==
    /\ clock < MaxClock
    /\ clock' = clock + 1
    /\ UNCHANGED <<kpc, titles, out_names, written, notFileVars>>

\* lines 332-337: the name of the final video
K_Name(j) ==
    /\ kpc[j] = "ready"
    /\ out_names' = [out_names EXCEPT ![j] = output_file(titles[j], clock)]
    /\ kpc' = [kpc EXCEPT ![j] = "clips"]
    /\ UNCHANGED <<clock, titles, written, notFileVars>>

\* lines 347-369: the clips of the scenes
K_SceneVideos(j) ==
    /\ kpc[j] = "clips"
    /\ written' = written \cup { <<j, scene_file(j, i)>> : i \in 0..(MaxScenes - 1) }
    /\ kpc' = [kpc EXCEPT ![j] = "combine"]
    /\ UNCHANGED <<clock, titles, out_names, notFileVars>>

\* lines 378-391: the clips are combined into the video without audio
K_Combine(j) ==
    /\ kpc[j] = "combine"
    /\ written' = written \cup {<<j, no_audio_file(j)>>}
                     \cup { <<j, transition_file(j, i)>> : i \in 1..(MaxScenes - 1) }
    /\ kpc' = [kpc EXCEPT ![j] = "audio"]
    /\ UNCHANGED <<clock, titles, out_names, notFileVars>>

\* lines 404-408: add_audio writes the final video
K_AddAudio(j) ==
    /\ kpc[j] = "audio"
    /\ written' = written \cup {<<j, out_names[j]>>}
    /\ kpc' = [kpc EXCEPT ![j] = "done"]
    /\ UNCHANGED <<clock, titles, out_names, notFileVars>>

FilesNext ==
    \/ K_Tick
    \/ \E j \in JobIds : K_Name(j)
    \/ \E j \in JobIds : K_SceneVideos(j)
    \/ \E j \in JobIds : K_Combine(j)
    \/ \E j \in JobIds : K_AddAudio(j)

FilesSpec == FilesInit /\ [][FilesNext]_vars

---------------------------------------------------------------------------
(* fix_workflow_file driven on its own *)

\* the input file holds a workflow with a node list and a link list
FixInit ==
    /\ PipelineInit
    /\ PromptIdle
    /\ WaitIdle
    /\ FilesIdle
    /\ TrackerIdle
    /\ CombineIdle
    /\ ClientIdle
    /\ PatchIdle
    /\ SceneIdle
    /\ fpc = "ready"
    /\ fix_in \in { Workflow(nodes, links) :
                      nodes \in FileNodeLists, links \in FileLinkLists }
    /\ fix_io \in FixOutcomes
    /\ fix_out = NotFixed

\* one call of fix_workflow_file
F_Fix ==
    /\ fpc = "ready"
    /\ fix_out' = fix_workflow_file(fix_in, fix_io)
    /\ fpc' = "returned"
    /\ UNCHANGED <<fix_in, fix_io>>
    /\ UNCHANGED <<pipelineVars, combined, combineVars, clientVars, patchVars,
                   sceneVars, trackerVars, promptVars, waitVars, fileVars>>

FixNext == F_Fix

FixSpec == FixInit /\ [][FixNext]_vars

---------------------------------------------------------------------------
(* The tracker under concurrent workers, status queries and a restart       *)
(* (src/backend/video/progress_tracker.py).  Every method runs under the    *)
(* tracker lock, so a method is one step; what a worker does with the dict  *)
(* get_job returned happens outside the lock and is a step of its own.      *)

\* outcomes of _save_progress, lines 416-421: written, or the error logged
TrackerSaveOutcomes == BOOLEAN

notTrackerVars == <<gpc, job_id, scene_count, pc, workerLocals, stage_log,
                    query_result, temp_dir, combined, combineVars, clientVars,
                    patchVars, sceneVars, fixVars, promptVars, waitVars, fileVars>>

\* a fresh tracker over an empty directory
TrackerInit ==
    /\ PipelineInit
    /\ PromptIdle
    /\ WaitIdle
    /\ FilesIdle
    /\ CombineIdle
    /\ ClientIdle
    /\ PatchIdle
    /\ SceneIdle
    /\ FixIdle
    /\ tpc = "running"
    /\ held = [j \in JobIds |-> "none"]
    /\ before_restart = <<>>
    /\ seen = <<>>
    /\ op_job = "none"
    /\ ops = 0

\* a method of the tracker that changes the job: the change and the save
\* under the lock
Mutation(j, newdata) ==
    /\ tpc = "running"
    /\ ops < MaxOps
    /\ \E ok \in TrackerSaveOutcomes : Tracker(newdata, j, ok)
    /\ ops' = ops + 1
    /\ op_job' = j
    /\ UNCHANGED <<tpc, before_restart, seen, notTrackerVars>>

\* create_job, lines 54-89
T_CreateJob(j) ==
    /\ j \notin DOMAIN progress_data
    /\ Mutation(j, create_job(progress_data, j, 0))
    /\ UNCHANGED held

\* update_stage, lines 112-154
T_UpdateStage(j) ==
    /\ Mutation(j, update_stage(progress_data, j, "download",
                                "Downloading audio from URL"))
    /\ UNCHANGED held

\* variant: failing a job marks every job of the tracker as failed
T_FailJob_Mut(j) ==
    /\ Mutation(j, [b \in DOMAIN progress_data |->
                      fail_job(progress_data, b, <<"Error", "">>)[b]])
    /\ UNCHANGED held

\* fail_job, lines 340-363
T_FailJob(j) ==
    /\ Mutation(j, fail_job(progress_data, j, <<"Error", "">>))
    /\ UNCHANGED held

\* get_job, lines 179-204, called by the worker at video_generator.py line
\* 251: the dict of the tracker itself is returned
T_GetJob(j) ==
    /\ tpc = "running"
    /\ held[j] = "none"
    /\ get_progress_found(progress_data, progress_files, j)
    /\ progress_data' = get_progress_data(progress_data, progress_files, j)
    /\ held' = [held EXCEPT ![j] = "held"]
    /\ op_job' = j
    /\ UNCHANGED <<progress_files, tpc, before_restart, seen, ops, notTrackerVars>>

\* video_generator.py line 253: the worker stores the scene descriptions
\* in the dict it holds, outside the lock
T_SetDescriptions(j) ==
    /\ tpc = "running"
    /\ held[j] = "held"
    /\ ops < MaxOps
    /\ progress_data' = [progress_data EXCEPT
                           ![j].scene_descriptions = SceneDescriptions(0, 1)]
    /\ held' = [held EXCEPT ![j] = "changed"]
    /\ ops' = ops + 1
    /\ op_job' = j
    /\ UNCHANGED <<progress_files, tpc, before_restart, seen, notTrackerVars>>

\* video_generator.py line 254, update_job, lines 156-177, with the dict
\* held
T_UpdateJob(j) ==
    /\ held[j] = "changed"
    /\ Mutation(j, update_job(progress_data, j, progress_data[j]))
    /\ held' = [held EXCEPT ![j] = "none"]

\* get_progress, lines 365-390, of a status query: a copy of the record,
\* <<>> for None
T_GetProgress(j) ==
    /\ tpc # "idle"
    /\ progress_data' = get_progress_data(progress_data, progress_files, j)
    /\ seen' = DictSet(seen, j,
                       IF get_progress_found(progress_data, progress_files, j)
                       THEN <<get_progress_data(progress_data, progress_files, j)[j]>>
                       ELSE <<>>)
    /\ op_job' = j
    /\ UNCHANGED <<progress_files, tpc, held, before_restart, ops, notTrackerVars>>

\* the process ends and a new one constructs its tracker over the same
\* directory (lines 33-52): the dict is empty, the files stay; the new
\* process serves status queries
T_Restart ==
    /\ tpc = "running"
    /\ before_restart' = progress_data
    /\ progress_data' = <<>>
    /\ held' = [j \in JobIds |-> "none"]
    /\ seen' = <<>>
    /\ tpc' = "restarted"
    /\ op_job' = "none"
    /\ UNCHANGED <<progress_files, ops, notTrackerVars>>

TrackerNext ==
    \/ \E j \in JobIds :
          \/ T_CreateJob(j)
          \/ T_UpdateStage(j)
          \/ T_FailJob(j)
          \/ T_GetJob(j)
          \/ T_SetDescriptions(j)
          \/ T_UpdateJob(j)
          \/ T_GetProgress(j)
    \/ T_Restart

TrackerSpec == TrackerInit /\ [][TrackerNext]_vars

---------------------------------------------------------------------------
(* Properties *)

HasJob == job_id \in DOMAIN progress_data
Job == progress_data[job_id]
Terminal == {"completed", "failed"}

StageOrder == <<"initializing", "download", "lyrics", "scene_planning",
                "scene_generation", "video_creation">>
StageRank(s) == IF \E i \in 1..Len(StageOrder) : StageOrder[i] = s
                THEN CHOOSE i \in 1..Len(StageOrder) : StageOrder[i] = s
                ELSE 0

\* the stage log without immediate repetitions
RECURSIVE Dedup(_)
Dedup(s) ==
    IF Len(s) <= 1 THEN s
    ELSE IF s[1] = s[2] THEN Dedup(Tail(s))
    ELSE <<s[1]>> \o Dedup(Tail(s))

SuccessCount == Cardinality({ i \in 1..Len(scene_results) : scene_results[i].success })

\* the batch loop over a non-empty scene list has ended
BatchDone ==
    /\ Len(scene_descriptions) > 0
    /\ pc \notin {"idle", "begin", "download", "lyrics", "plan", "describe",
                  "scene_gen", "render"}

\* C1: the overall_progress of a job never decreases from one tracker state
\* to the next, whatever update the worker makes and however many scenes
\* are skipped or fail.  (With a negative scene_count override the clip
\* updates leave the 50-75 band and the transition update then lowers it.)
C1_ProgressNeverDecreases ==
    [][ \A j \in DOMAIN progress_data :
           /\ j \in DOMAIN progress_data'
           /\ progress_data'[j].overall_progress >= progress_data[j].overall_progress
      ]_vars

\* C2: overall_progress is 100 exactly when the status is completed.
C2_HundredIffCompleted ==
    HasJob => ((Job.overall_progress = Pct(100)) <=> (Job.status = "completed"))

\* C3: no step moves the stage of a job to an earlier stage, and a completed
\* job has gone through all six stages in pipeline order.
C3_StageForward ==
    /\ [][ \A j \in DOMAIN progress_data :
             /\ j \in DOMAIN progress_data'
             /\ StageRank(progress_data'[j].stage_name)
                    >= StageRank(progress_data[j].stage_name)
        ]_vars
    /\ []( (HasJob /\ Job.status = "completed") => Dedup(stage_log) = StageOrder )

C3_Witness == HasJob /\ Job.status = "completed" /\ Job.stage_name = "video_creation"

\* a stage of the job has failed: the download, the scene images, the
\* composition or the audio mux
StageFailed ==
    \/ download_error # "None"
    \/ BatchDone /\ SuccessCount < MinSuccessfulScenes
    \/ combine_result = "fail"
    \/ audio_result = "fail"

\* C4: a failed stage leaves the job failed with the worker ended, and once
\* the job is failed its record, its stage log and the counts of render and
\* encoder calls never change again.
C4_NothingAfterFail ==
    /\ [](StageFailed => (HasJob /\ Job.status = "failed" /\ pc = "done"))
    /\ [][ (HasJob /\ Job.status = "failed") =>
             /\ HasJob'
             /\ Job' = Job
             /\ UNCHANGED <<stage_log, render_calls, encoder_calls, pc>>
        ]_vars

\* the composition failed after clips were encoded
C4_Witness ==
    /\ HasJob /\ Job.status = "failed"
    /\ combine_result = "fail"
    /\ encoder_calls > 0

\* C5: a download error leaves the job failed at stage download with the
\* download error in its error field, and no render call made.
C5_DownloadFailure ==
    download_error # "None" =>
        /\ HasJob
        /\ Job.status = "failed"
        /\ Job.stage_name = "download"
        /\ Job.error = <<"Download failed", download_error>>
        /\ render_calls = 0
        /\ pc = "done"

C5_Witness == download_error = "http_error" /\ HasJob /\ Job.status = "failed"

\* C6: once the batch has ended every planned scene was attempted; with
\* fewer than 2 successes the job is failed and never entered
\* video_creation; with 2 or more it entered video_creation with exactly
\* the successful scenes.
C6_SceneGeneration ==
    BatchDone =>
        /\ Len(scene_results) = Len(scene_descriptions)
        /\ render_calls = Len(scene_descriptions)
        /\ SuccessCount < MinSuccessfulScenes =>
              /\ HasJob /\ Job.status = "failed" /\ pc = "done"
              /\ \A i \in 1..Len(stage_log) : stage_log[i] # "video_creation"
        /\ SuccessCount >= MinSuccessfulScenes =>
              /\ HasJob /\ Job.stage_name = "video_creation"
              /\ Len(successful_scenes) = SuccessCount
              /\ \A i \in 1..Len(successful_scenes) : successful_scenes[i].success
              /\ SceneIds(successful_scenes) =
                    { scene_results[i].scene_id :
                        i \in { k \in 1..Len(scene_results) : scene_results[k].success } }

\* the first scene failed, later ones succeeded, video_creation entered
C6_Witness ==
    /\ pc = "prepare"
    /\ ~scene_results[1].success
    /\ SuccessCount >= MinSuccessfulScenes
    /\ SuccessCount < Len(scene_descriptions)

\* C7: a completed job's video was composed from at least 2 scene clips.
C7_CompletedHasTwoClips ==
    (HasJob /\ Job.status = "completed") => Len(scene_videos) >= MinSuccessfulScenes

\* C8: a job is completed only when composition and audio mux both
\* succeeded, its stored path is the path the muxer wrote, and a job whose
\* composition or mux failed is not completed.
C8_CompletedOnlyAfterMux ==
    /\ (HasJob /\ Job.status = "completed") =>
          /\ combine_result = "ok"
          /\ audio_result = "ok"
          /\ mux_output # "None"
          /\ Job.video_path = mux_output
    /\ (combine_result = "fail" \/ audio_result = "fail") =>
          (HasJob /\ Job.status # "completed")

C8_Witness == HasJob /\ Job.status = "completed" /\ Job.video_path \in OutputPaths

\* C9: once the worker of a job has started, the worker eventually ends and
\* the job's status is then completed or failed.
C9_EventuallyTerminal ==
    (pc # "idle") ~> (pc = "done" /\ HasJob /\ Job.status \in Terminal)

\* the worker ended through the exception handler
C9_Witness ==
    /\ pc = "done"
    /\ HasJob /\ Job.status = "failed"
    /\ Job.error[1] = "Error in video generation process"

\* C10: the job record exists before the worker starts, and once
\* generate_from_url has returned a status query finds the job's record.
C10_JobFoundAfterReturn ==
    /\ pc # "idle" => HasJob
    /\ gpc = "returned" =>
          /\ get_progress_found(progress_data, progress_files, job_id)
          /\ Job.job_id = job_id
          /\ query_result # "not_found"

\* the caller has the job id and a snapshot while the worker has not run
C10_Witness == gpc = "returned" /\ pc = "begin" /\ query_result = "snapshot"

---------------------------------------------------------------------------
(* Properties of the transition compositor *)

RECURSIVE SumDurations(_, _)
SumDurations(files, paths) ==
    IF paths = <<>> THEN 0
    ELSE Len(files[Head(paths)]) + SumDurations(files, Tail(paths))

\* the number of frames of the inputs that were blended into another frame
RECURSIVE Overlap(_)
Overlap(clip) ==
    IF clip = <<>> THEN 0
    ELSE Cardinality(Head(clip)) - 1 + Overlap(Tail(clip))

\* C11: the compositor applies no transition to fewer than two clips: an
\* empty list returns the "No videos provided" error and writes nothing, a
\* single clip becomes the output unchanged (the call fails only when the
\* copy raises), and in both cases no transition is made and the encoder
\* is not run.
C11_FewerThanTwoClips ==
    (cpc = "returned" /\ Len(in_video_paths) < 2) =>
        /\ combined.calls = <<>>
        /\ combined.runs = 0
        /\ Len(in_video_paths) = 0 =>
              /\ ~combined.success
              /\ combined.error = "No videos provided"
              /\ combined.files = fs
        /\ Len(in_video_paths) = 1 =>
              IF combined.success
              THEN /\ combined.files[OutPath] = fs[in_video_paths[1]]
                   /\ \A p \in DOMAIN fs : combined.files[p] = fs[p]
              ELSE /\ combined.error = "Failed to combine videos with transitions"
                   /\ combined.files = fs

\* a single clip was copied to the output
C11_Witness ==
    /\ cpc = "returned"
    /\ Len(in_video_paths) = 1
    /\ combined.success
    /\ combined.files[OutPath] = fs[in_video_paths[1]]

\* C12: composing N >= 2 clips with a supported transition type and a
\* transition duration T no longer than any clip gives a clip of duration
\* d1 + ... + dN - (N-1)*T: each transition blends T frames of the running
\* result with T frames of the next clip.
C12_ComposedDuration ==
    ( /\ cpc = "returned"
      /\ combined.success
      /\ Len(in_video_paths) >= 2
      /\ in_transition_type \in SupportedTransitions
      /\ \A k \in 1..Len(in_video_paths) :
            in_transition_duration <= Len(fs[in_video_paths[k]]) )
    => LET n == Len(in_video_paths)
           out == combined.files[OutPath]
       IN /\ Len(out) = SumDurations(fs, in_video_paths)
                           - (n - 1) * in_transition_duration
          /\ Overlap(out) = (n - 1) * in_transition_duration

\* three clips of different durations wiped together over 2 frames each
C12_Witness ==
    /\ cpc = "returned"
    /\ combined.success
    /\ Len(in_video_paths) = 3
    /\ in_transition_type = "wipe"
    /\ in_transition_duration = 2
    /\ Len(fs[in_video_paths[1]]) # Len(fs[in_video_paths[2]])
    /\ Len(combined.files[OutPath]) = SumDurations(fs, in_video_paths) - 4

\* the first and the last frame of a clip that show scene k (0: none)
FirstFrame(clip, k) ==
    IF \E t \in 1..Len(clip) : k \in clip[t]
    THEN CHOOSE t \in 1..Len(clip) :
            k \in clip[t] /\ \A u \in 1..(t - 1) : k \notin clip[u]
    ELSE 0

LastFrame(clip, k) ==
    IF \E t \in 1..Len(clip) : k \in clip[t]
    THEN CHOOSE t \in 1..Len(clip) :
            k \in clip[t] /\ \A u \in (t + 1)..Len(clip) : k \notin clip[u]
    ELSE 0

\* the clip shows exactly the scenes of the list, each one starting and
\* ending before the next one does
ShowsInOrder(clip, scenes) ==
    /\ UNION { clip[t] : t \in 1..Len(clip) }
          = { scenes[i] : i \in 1..Len(scenes) }
    /\ \A i \in 1..(Len(scenes) - 1) :
          /\ FirstFrame(clip, scenes[i]) < FirstFrame(clip, scenes[i + 1])
          /\ LastFrame(clip, scenes[i]) < LastFrame(clip, scenes[i + 1])

\* the i-th transition of a composition of the clips of scene_videos
ExpectedCall(i) ==
    [video1_path |-> IF i = 1 THEN ScenePath(scene_videos[1])
                     ELSE TempOutput(i - 1),
     video2_path |-> ScenePath(scene_videos[i + 1]),
     output_path |-> TempOutput(i)]

\* C13: the worker hands the compositor its clips in planned scene order;
\* the compositor makes its transitions in increasing index order, the
\* i-th on the previous running result and clip i+1; a composition that
\* succeeds made exactly N-1 of them and its output shows the scenes in
\* planned order.
C13_TransitionsInSceneOrder ==
    combine_result # "none" =>
        LET n == Len(scene_videos) IN
        /\ \A i \in 1..(n - 1) : scene_videos[i] < scene_videos[i + 1]
        /\ Len(combined.calls) <= n - 1
        /\ \A i \in 1..Len(combined.calls) : combined.calls[i] = ExpectedCall(i)
        /\ combine_result = "ok" =>
              /\ Len(combined.calls) = n - 1
              /\ ShowsInOrder(combined.files[VideoWithoutAudio], scene_videos)

\* three or more clips, one planned scene left out, were composed
C13_Witness ==
    /\ combine_result = "ok"
    /\ Len(scene_videos) >= 3
    /\ Len(scene_videos) < Len(scene_descriptions)
    /\ Len(combined.calls) = Len(scene_videos) - 1

---------------------------------------------------------------------------
(* Properties of the render backend client *)

\* wait_for_prompt has returned
WaitReturned == prompt_id # "None" /\ rpc \in {"waited", "download", "done"}

EventsAt(names) == { i \in 1..Len(events) : events[i] \in names }

\* C14: with a timeout of 0 or less wait_for_prompt returns the timeout
\* error at once: no iteration is started, the backend is asked nothing,
\* no time passes, and nothing is downloaded for the prompt.
C14_ZeroTimeout ==
    timeout <= 0 =>
        /\ polls = 0
        /\ EventsAt({"poll", "recheck", "completed", "download", "fetch"}) = {}
        /\ image_paths = NoDownload
        /\ WaitReturned =>
              /\ wait_result = Failed(TimeoutError)
              /\ now = start_time
        /\ (rpc = "done" /\ prompt_id # "None") =>
              scene_return = SceneReturn("None", TimeoutError)

\* generate_scene ended on the timeout of a wait of 0
C14_Witness ==
    /\ timeout = 0
    /\ rpc = "done"
    /\ events = <<"submit", "timed_out">>
    /\ scene_return.error = TimeoutError

\* C15: when the prompt is neither executing nor pending nor in the
\* history, and the re-check after the extended wait still does not find
\* it, wait_for_prompt returns a silent-failure error that is not the
\* timeout error, without starting another iteration.
C15_SilentFailureReturned ==
    [][ (rpc = "recheck" /\ ~wait_result'.success) =>
           /\ rpc' = "waited"
           /\ wait_result'.error \notin {"None", TimeoutError, "backend error"}
      ]_vars

\* C16: wait_for_prompt always returns: an iteration starts only while the
\* elapsed time is below the timeout, so at most timeout / check_interval
\* (rounded up) iterations start; the wait ends with outputs, with the
\* error of the backend or with the timeout error; and a wait that has
\* started returns.
C16_WaitAlwaysReturns ==
    /\ [][ polls' # polls =>
             (polls' = polls + 1 /\ now - start_time < timeout) ]_vars
    /\ [](polls > 0 => (polls - 1) * check_interval < timeout)
    /\ [](WaitReturned =>
             \/ wait_result.success /\ wait_result.outputs # <<>>
             \/ wait_result = Failed("backend error")
             \/ wait_result = Failed(TimeoutError) /\ now - start_time >= timeout)
    /\ (rpc = "wait") ~> WaitReturned

\* the wait ran through several iterations and the extended wait, then
\* timed out
C16_Witness ==
    /\ rpc = "waited"
    /\ wait_result = Failed(TimeoutError)
    /\ polls >= 2
    /\ EventsAt({"recheck"}) # {}

Terminals == {"completed", "failed", "timed_out", "rejected"}

\* C17: the events of a prompt are the submit, then polls, then at most one
\* terminal outcome; images are downloaded only after the completed
\* outcome, and nothing is polled or downloaded after a rejected submit.
C17_HandleEvents ==
    /\ events # <<>> => events[1] \in {"submit", "rejected"}
    /\ Cardinality(EventsAt(Terminals)) <= 1
    /\ \A i \in EventsAt({"poll", "recheck"}) :
          /\ events[1] = "submit"
          /\ \A j \in EventsAt(Terminals) : i < j
    /\ \A i \in EventsAt({"download", "fetch"}) :
          \E j \in EventsAt({"completed"}) : j < i
    /\ EventsAt({"rejected"}) # {} => (Len(events) = 1 /\ polls = 0)
    /\ polls > 0 => prompt_id # "None"
    /\ polls >= Cardinality(EventsAt({"poll"}))

\* submit, a poll that found the prompt executing, a poll that found it
\* completed, then two images fetched
C17_Witness ==
    /\ rpc = "done"
    /\ events = <<"submit", "poll", "poll", "completed", "download", "fetch", "fetch">>

Keys(seq) == { seq[i] : i \in 1..Len(seq) }

\* the image outputs that name a file, in the order of the dict
RECURSIVE ImageKeys(_)
ImageKeys(outputs) ==
    IF outputs = <<>> THEN <<>>
    ELSE IF Head(outputs).type = "image" /\ Head(outputs).filename # ""
         THEN <<Head(outputs).key>> \o ImageKeys(Tail(outputs))
         ELSE ImageKeys(Tail(outputs))

\* C18: download_output_images asks the backend for image outputs only; an
\* image that is unavailable is left out and the remaining images are
\* still downloaded; the keys of the returned map are exactly the image
\* outputs whose download gave data.
C18_DownloadedImages ==
    (rpc = "done" /\ EventsAt({"download"}) # {}) =>
        LET r == image_paths
            wanted == ImageKeys(wait_result.outputs)
        IN /\ \A i \in 1..Len(r.requested) :
                 i <= Len(wanted) /\ r.requested[i] = wanted[i]
           /\ DOMAIN r.result = { k \in Keys(r.requested) : r.fetched[k] = "data" }
           /\ IF r.raised
              THEN r.fetched[r.requested[Len(r.requested)]] = "write_error"
              ELSE /\ r.requested = wanted
                   /\ \A k \in Keys(wanted) : r.fetched[k] # "write_error"

\* the first image was unavailable, the second one was saved
C18_Witness ==
    /\ rpc = "done"
    /\ ~image_paths.raised
    /\ Len(image_paths.requested) = 2
    /\ image_paths.fetched[image_paths.requested[1]] = "None"
    /\ DOMAIN image_paths.result = {image_paths.requested[2]}

---------------------------------------------------------------------------
(* Workflow patching *)

\* the key names no node of the loaded template
NoNode(key) ==
    Len(key) < 2 \/ \A i \in 1..Len(loaded_nodes) : loaded_nodes[i].id # key[1]

\* the parameter names the type of a node gives a slot of its widget values
TypeParams(type) ==
    IF type = "CLIPTextEncode" THEN {"text"}
    ELSE IF type = "EmptyLatentImage" THEN {"width", "height", "batch_size"}
    ELSE IF type = "SaveImage" THEN {"output_dir", "filename_prefix"}
    ELSE IF type = "CheckpointLoaderSimple" THEN {"ckpt_name"}
    ELSE {}

\* the key names a node of the loaded template and a parameter that node
\* has no slot for under any name
NoSlot(key) ==
    /\ ~NoNode(key)
    /\ \A i \in 1..Len(loaded_nodes) :
          loaded_nodes[i].id = key[1] =>
              \/ Len(key) > 2
              \/ /\ key[2] \notin TypeParams(loaded_nodes[i].type)
                 /\ \A k \in 1..Len(loaded_nodes[i].inputs) :
                       loaded_nodes[i].inputs[k].name # key[2]
                 /\ \A k \in 1..Len(loaded_nodes[i].widgets) :
                       loaded_nodes[i].widgets[k] # key[2]

Unmatched(key) == NoNode(key) \/ NoSlot(key)

Matched(keys) == SelectSeq(keys, LAMBDA key : ~Unmatched(key))

\* what a call with these keys and this value returns for the template
Patched(keys, value) ==
    LET r == update_workflow(patch_applied, heap, template,
                             [i \in 1..Len(keys) |-> <<keys[i], value>>])
    IN Content(r.heap, r.workflow)

\* C19: a call of update_workflow on a valid template never raises; a key
\* that matches no node or no parameter slot changes nothing, and the call
\* returns what it returns for its other keys alone
C19_UnmatchedKeysSkipped ==
    \A c \in 1..Len(patches) :
        /\ ~patches[c].raised
        /\ Content(heap, patches[c].workflow)
               = Patched(Matched(patches[c].keys), patches[c].value)
        /\ (Matched(patches[c].keys) = <<>>
               => Content(heap, patches[c].workflow) = loaded_nodes)

\* a call whose first key names no node and whose second key was applied,
\* and a call whose first key names no slot and whose second was applied
C19_Witness ==
    /\ Len(patches) = 2
    /\ \A c \in 1..2 :
          /\ Len(patches[c].keys) = 2
          /\ ~Unmatched(patches[c].keys[2])
          /\ ~patches[c].raised
          /\ Content(heap, patches[c].workflow) # loaded_nodes
    /\ NoNode(patches[1].keys[1])
    /\ NoSlot(patches[2].keys[1])

\* every value the nodes carry
ValuesIn(nodes) ==
    UNION { { nodes[i].widgets_values[k] : k \in 1..Len(nodes[i].widgets_values) }
            \cup { nodes[i].inputs[k].value : k \in 1..Len(nodes[i].inputs) }
            : i \in 1..Len(nodes) }

\* C20: the template passed to update_workflow is as it was loaded after
\* every call, and what one call returned shows no value of another call
C20_TemplateUnchanged ==
    /\ Content(heap, template) = loaded_nodes
    /\ \A c, d \in 1..Len(patches) :
          c # d => patches[d].value
                       \notin ValuesIn(Content(heap, patches[c].workflow))

\* the same template was patched twice and each result shows the value of
\* its own call
C20_Witness ==
    /\ Len(patches) = 2
    /\ patches[1].value # patches[2].value
    /\ \A c \in 1..2 :
          patches[c].value \in ValuesIn(Content(heap, patches[c].workflow))

---------------------------------------------------------------------------
(* Scene generation of the fast renderer *)

\* the value generate_scene means the parameter of the loaded node to get,
\* "None" when it means to leave it alone
GivenValue(node, param) ==
    LET s == SceneSettings(model_type, aspect_ratio)
        f == FoundNodes(loaded_nodes, s.node_type)
    IN IF node.id = f.positive_node_id /\ param = "text" THEN ScenePrompt
       ELSE IF node.id = f.checkpoint_node_id /\ param = "ckpt_name"
               /\ model_type # "sdxl_turbo" THEN s.model_file
       ELSE IF node.id = f.resolution_node_id /\ param = "width" THEN s.size[1]
       ELSE IF node.id = f.resolution_node_id /\ param = "height" THEN s.size[2]
       ELSE IF node.id = f.save_node_id /\ param = "filename_prefix" THEN OutputPrefix
       ELSE "None"

\* C21: after the updates of a scene generation are applied to a default
\* template, every slot of every node holds the value given for the
\* parameter of that slot, or what the template held when none was given
C21_ValuesInOwnSlots ==
    spc = "patched" =>
        \A i \in 1..Len(updated_workflow) :
            LET node == heap[updated_workflow[i]]
                old == loaded_nodes[i]
                params == WidgetParams(old.type)
            IN \A k \in 1..Len(old.widgets_values) :
                  node.widgets_values[k] =
                      IF GivenValue(old, params[k]) # "None"
                      THEN GivenValue(old, params[k])
                      ELSE old.widgets_values[k]

\* C22: after the seed is drawn, the seed slot of every sampler node of the
\* patched template holds it and the other slots of the sampler are as the
\* template had them
C22_SeedInSeedSlot ==
    spc = "seeded" =>
        \A i \in 1..Len(updated_workflow) :
            LET node == heap[updated_workflow[i]]
                old == loaded_nodes[i]
                params == WidgetParams(old.type)
            IN old.type \in {"KSampler", "SamplerCustom"} =>
                  \A k \in 1..Len(old.widgets_values) :
                      node.widgets_values[k] =
                          IF params[k] \in {"seed", "noise_seed"} THEN seed
                          ELSE old.widgets_values[k]

---------------------------------------------------------------------------
(* Template links *)

WrittenIds == { fix_out.workflow.nodes[i].id : i \in 1..Len(fix_out.workflow.nodes) }

\* C23: when fix_workflow_file has written the template, both ends of every
\* link of it are ids of its nodes; and for a file whose links have at most
\* six elements and an output that can be written, the call returns True
\* and has written the template
C23_KeptLinksHaveBothEnds ==
    fpc = "returned" =>
        /\ fix_out.written =>
              \A i \in 1..Len(fix_out.workflow.links) :
                  /\ fix_out.workflow.links[i][2] \in WrittenIds
                  /\ fix_out.workflow.links[i][4] \in WrittenIds
        /\ fix_out.success = fix_out.written
        /\ ((\A i \in 1..Len(fix_in.links) : Len(fix_in.links[i]) <= 6)
                /\ fix_io = "ok") => fix_out.success

\* the file of the example: a link from the missing node 99 was dropped, a
\* link between two nodes was kept, and the call succeeded
C23_Witness ==
    /\ fpc = "returned"
    /\ fix_out.success /\ fix_out.written
    /\ \E i \in 1..Len(fix_in.links) : fix_in.links[i] = <<1, 99, 0, 2, 0, "IMAGE">>
    /\ \A i \in 1..Len(fix_out.workflow.links) : fix_out.workflow.links[i][2] # 99
    /\ Len(fix_out.workflow.links) > 0

---------------------------------------------------------------------------
(* Durability and isolation of the job records *)

\* C24: what get_progress of a fresh tracker over the same directory
\* returns for a job is the record the tracker held for it when the
\* process ended
C24_RestartRecoversLastRecord ==
    tpc = "restarted" =>
        \A j \in DOMAIN seen :
            j \in DOMAIN before_restart => seen[j] = <<before_restart[j]>>

\* C25: every record a get_progress can return is the content of the
\* progress file of its job
C25_ReadersSeeSavedState ==
    tpc = "running" =>
        \A j \in DOMAIN progress_data :
            j \in DOMAIN progress_files /\ progress_files[j] = progress_data[j]

\* the record of the job in memory and in its file, <<>> where there is none
InMemory(data, j) == IF j \in DOMAIN data THEN <<data[j]>> ELSE <<>>

----------------------------------------------------------------------------
(* Properties: the working directory of a job *)

\* C26: when the worker of a job has ended, on the success path or on a
\* failure path, the directory jobs/<job_id>/temp of the job is gone
C26_TempDirRemoved == pc = "done" => temp_dir = FALSE

----------------------------------------------------------------------------
(* Properties: lyrics and scene planning *)

\* scene planning has ended and the scene images are being generated
Planned == pc \in {"scene_gen", "render"}

\* C28: when lyric extraction gives no lyric line the job is not failed in
\* the lyrics stage nor in scene planning for the lack of lyrics (only an
\* exception of the extraction itself fails it there), and scene
\* generation is entered with generic scene descriptions only, one for
\* each planned scene
C28_NoLyricsGoesOn ==
    lyrics_lines = 0 =>
        /\ (HasJob /\ Job.status = "failed"
              /\ Job.stage_name \in {"lyrics", "scene_planning"}) =>
              Job.error = <<"Error in video generation process", "lyrics">>
        /\ pc \in {"plan", "describe"} => HasJob /\ Job.status = "running"
        /\ Planned =>
              /\ HasJob /\ Job.status = "running"
              /\ \A i \in 1..Len(scene_descriptions) :
                    /\ scene_descriptions[i].generic
                    /\ scene_descriptions[i].scene_id = i
              /\ DOMAIN scene_descriptions = 1..scene_count[1]
              /\ Job.scene_descriptions = scene_descriptions

\* no lyrics, no override: the default number of generic scenes is rendered
C28_Witness ==
    /\ pc = "render"
    /\ lyrics_lines = 0
    /\ Len(scene_descriptions) = DefaultSceneCount
    /\ \A i \in 1..Len(scene_descriptions) : scene_descriptions[i].generic
    /\ Job.stage_name = "scene_generation"

\* the scene count the precedence override, duration, lyric lines, default
\* gives
PrecedenceCount(override, md, nlines) ==
    IF override # None THEN override[1]
    ELSE IF md.has_duration /\ md.parses
         THEN Clamp(Round(md.seconds, SecondsPerScene))
    ELSE IF nlines > 0 THEN Clamp(Round(nlines, LinesPerScene))
    ELSE DefaultSceneCount

\* C29: the scene count settled in the lyrics step is the override when one
\* was given, else the count from the duration when it is known and parses,
\* else the count from the lyric lines when there are any, else the
\* default; and the planned scene descriptions are exactly that many, with
\* ids 1 to the count
C29_CountAndDescriptions ==
    /\ [][(pc = "lyrics" /\ pc' = "plan") =>
            scene_count' = Some(PrecedenceCount(scene_count, metadata,
                                                lyrics_lines'))]_vars
    /\ [](Planned =>
            /\ Len(scene_descriptions) = scene_count[1]
            /\ \A i \in 1..Len(scene_descriptions) :
                  scene_descriptions[i].scene_id = i)

\* the lyric lines of the scene descriptions, in the order of the scenes
RECURSIVE LinesOf(_)
LinesOf(sd) ==
    IF sd = <<>> THEN <<>> ELSE Head(sd).description \o LinesOf(Tail(sd))

\* C30: when there are lyrics, the planned scene descriptions hold every
\* lyric line exactly once and in the original order
C30_LinesPartitioned ==
    (Planned /\ lyrics_lines > 0) =>
        LinesOf(scene_descriptions) = [i \in 1..lyrics_lines |-> i]

----------------------------------------------------------------------------
(* Properties: the progress bands *)

\* the band of overall_progress of each stage, in percent
StageBand ==
    [ download |-> <<0, 5>>, lyrics |-> <<5, 10>>, scene_planning |-> <<10, 15>>,
      scene_generation |-> <<15, 50>>, video_creation |-> <<50, 100>> ]

\* the sub-band of each progress update made inside video_creation
SubBand ==
    [ p \in {"Processing scene", "Adding transitions", "Adding audio"} |->
        IF p = "Processing scene" THEN <<50, 75>>
        ELSE IF p = "Adding transitions" THEN <<75, 90>>
        ELSE <<90, 100>> ]

InBand(band) ==
    Pct(band[1]) <= Job.overall_progress /\ Job.overall_progress <= Pct(band[2])

\* C31: while a job runs its overall_progress lies in the band of its
\* stage, and in video_creation the clip, transition and audio updates
\* leave it in the sub-bands 50-75, 75-90 and 90-100
C31_ProgressInStageBand ==
    (HasJob /\ Job.status = "running") =>
        /\ Job.stage_name \in DOMAIN StageBand => InBand(StageBand[Job.stage_name])
        /\ (Job.stage_name = "video_creation"
              /\ Job.current_stage[1] \in DOMAIN SubBand) =>
              InBand(SubBand[Job.current_stage[1]])

\* C32: in scene_generation of a job of more than one scene, once a scene
\* image is done overall_progress is above the value the stage began with
C32_ProgressRisesWithScenes ==
    (HasJob /\ Job.status = "running" /\ Job.stage_name = "scene_generation"
       /\ Len(scene_descriptions) > 1 /\ SuccessCount >= 1) =>
        Job.overall_progress > Pct(Stage_weights["scene_generation"])

\* C33: stage_progress and overall_progress of a job are always in [0, 100]
C33_ProgressInRange ==
    HasJob =>
        /\ 0 <= Job.stage_progress /\ Job.stage_progress <= Pct(100)
        /\ 0 <= Job.overall_progress /\ Job.overall_progress <= Pct(100)

----------------------------------------------------------------------------
(* Properties: failures of the clip synthesis *)

\* in the clip loop the encoder has run for more scenes than have a clip
ClipEncodeFailed == pc = "clips" /\ encoder_calls > Len(scene_videos)

\* C34: an encoder failure for a scene clip in video_creation ends the job
\* as failed at once, and no composition is made from a clip list that
\* lacks a scene
C34_ClipFailureAborts ==
    /\ ClipEncodeFailed => (HasJob /\ Job.status = "failed")
    /\ combine_result # "none" => Len(scene_videos) = Len(processed_scenes)

----------------------------------------------------------------------------
(* Properties: the text node *)

\* the text of a text-encode node, "None" when it holds none
TextOf(node) ==
    IF HasTextInput(node) THEN node.input_dict.text
    ELSE IF node.has_widgets_values /\ Len(node.widgets_values) > 0
    THEN node.widgets_values[1]
    ELSE "None"

\* a text-encode node whose text holds words of the negative-prompt lists
NegativeTextNode(node) ==
    node.type = "CLIPTextEncode" /\ NegWordsIn(TextOf(node)) # {}

\* the node at position i after generate_scene has applied its updates
AfterPatch(i) ==
    IF updated_workflow = <<>> THEN heap[template[i]]
    ELSE heap[updated_workflow[i]]

\* C35: once generate_scene has built and applied its updates, no
\* negative-prompt node of the loaded workflow has another text than
\* before, and the node the text update names is not a negative-prompt node
C35_NegativeNodesKept ==
    qpc \in {"fast_patched", "interface_patched", "error"} =>
        \A i \in 1..Len(loaded_nodes) :
            NegativeTextNode(loaded_nodes[i]) =>
                /\ TextOf(AfterPatch(i)) = TextOf(loaded_nodes[i])
                /\ text_node_id # loaded_nodes[i].id

----------------------------------------------------------------------------
(* Properties: terminal status *)

\* C36: once the status of a job is completed or failed, no step changes
\* it
C36_TerminalStatusKept ==
    [][(HasJob /\ Job.status \in Terminal) =>
          (HasJob' /\ Job'.status = Job.status)]_vars

----------------------------------------------------------------------------
(* Properties: several prompts on the shared client *)

\* C37: wait_for_prompt(h) returns the failure the status reports only
\* when the execution of h itself has failed
C37_FailureIsOwn ==
    \A h \in Handles : waiters[h] = "failed" => h \in backend.failures

----------------------------------------------------------------------------
(* Properties: the files of concurrent jobs *)

\* C38: no file, final or temporary, is written by two distinct jobs
C38_FilesDisjoint ==
    \A e1 \in written : \A e2 \in written : e1[2] = e2[2] => e1[1] = e2[1]

----------------------------------------------------------------------------
(* Properties: the slots of the nodes after the fix *)

\* the links the input slots and the output slots of a node refer to
InputLinks(node) ==
    IF "inputs" \in DOMAIN node
    THEN { node.inputs[k] : k \in 1..Len(node.inputs) } \ {0}
    ELSE {}

OutputLinks(node) ==
    IF "outputs" \in DOMAIN node
    THEN UNION { node.outputs[k] : k \in 1..Len(node.outputs) }
    ELSE {}

\* every link a slot refers to is in the link list and connects the node
SlotsConsistent(w) ==
    \A i \in 1..Len(w.nodes) :
        /\ \A l \in InputLinks(w.nodes[i]) :
              \E k \in 1..Len(w.links) :
                  /\ Len(w.links[k]) >= 6
                  /\ w.links[k][1] = l
                  /\ w.links[k][4] = w.nodes[i].id
        /\ \A l \in OutputLinks(w.nodes[i]) :
              \E k \in 1..Len(w.links) :
                  /\ Len(w.links[k]) >= 6
                  /\ w.links[k][1] = l
                  /\ w.links[k][2] = w.nodes[i].id

\* C39: in the workflow fix_workflow_file wrote, every link id a node input
\* or output slot refers to is present in the link list and connects that
\* node
C39_SlotsConsistent ==
    (fpc = "returned" /\ fix_out.written) => SlotsConsistent(fix_out.workflow)

----------------------------------------------------------------------------
(* Properties: the count of processed scenes *)

\* C40: processed_scenes of the job record is at most total_scenes and is
\* the number of scene clips synthesized so far
C40_ProcessedScenes ==
    HasJob => /\ Job.processed_scenes <= Job.total_scenes
              /\ Job.processed_scenes = Len(scene_videos)

====
